---- MODULE Spec2Model ----
(***************************************************************************)
(* A model of the Telegram translator pipeline: the messages table (dedup  *)
(* store), send_with_retry, create_message, handle_message, and the spam   *)
(* filter with its learned patterns.                                       *)
(*                                                                         *)
(* Several specifications share the variables below; each one pins the     *)
(* variables it does not use.                                              *)
(*   SpecStore    callers of store_message racing on the messages table    *)
(*   SpecDeliver  one call of send_with_retry against every transport      *)
(*   SpecClassify is_spam over the learned patterns that reviews build     *)
(*   SpecLearn    the functions of spam_learning, one call after another   *)
(*   SpecRecover  learn_from_false_positive, one step per storage call     *)
(*   SpecUpsert   callers of add_learned_pattern racing on learned_patterns*)
(*   SpecSeen     is_message_seen on the rows store_message wrote          *)
(*   SpecCompose  create_message on headers, links and translations        *)
(*   SpecHandle   concurrent handle_message tasks                          *)
(*   SpecHandleLive  one handle_message task whose awaits all return       *)
(***************************************************************************)
EXTENDS Integers, Sequences, FiniteSets, TLC

VARIABLES
    messages,          \* the messages table: a sequence of rows, index = AUTOINCREMENT id
    dbLock,            \* the connections holding sqlite's write lock: none or one
    callers,           \* SpecStore, SpecUpsert: one frame per racing call
    dcall,             \* SpecDeliver: the frame of one call of send_with_retry
    learned_patterns,  \* the learned_patterns table: (type, value, action) -> confidence
    spam_recovered,    \* the spam_recovered table: a sequence of rows
    verdict,           \* SpecClassify: the last call of is_spam on the table as it is
    lcall,             \* the last call of a function of spam_learning and its result
    scall,             \* SpecSeen: the last call of is_message_seen and its result
    composed,          \* SpecCompose: the arguments of create_message and its result
    tasks              \* SpecHandle: one frame per call of handle_message

storeVars == <<messages, dbLock, callers>>
deliverVars == <<dcall>>
classifyVars == <<learned_patterns, spam_recovered, verdict, lcall>>
composeVars == <<composed>>
handleVars == <<tasks>>
seenVars == <<scall>>
vars == <<messages, dbLock, callers, dcall, learned_patterns, spam_recovered,
          verdict, lcall, scall, composed, tasks>>

\* What an action of one specification leaves alone.
notStore == <<deliverVars, classifyVars, composeVars, handleVars, seenVars>>
notDeliver == <<storeVars, classifyVars, composeVars, handleVars, seenVars>>
notClassify == <<storeVars, deliverVars, composeVars, handleVars, seenVars>>
notCompose == <<storeVars, deliverVars, classifyVars, handleVars, seenVars>>
notHandle == <<dbLock, callers, deliverVars, classifyVars, composeVars, seenVars>>
notSeen == <<dbLock, callers, deliverVars, classifyVars, composeVars, handleVars>>

(***************************************************************************)
(* Bounds of the model.                                                    *)
(***************************************************************************)
NumChannels == 1
NumMessageIds == 2
NumCallers == 3

Channels == 1..NumChannels
MessageIds == 1..NumMessageIds
Keys == Channels \X MessageIds
Callers == 1..NumCallers

\* What a caller may pass as (content, link, date): two variants that differ
\* in all three fields, so that a replaced row is visible.
Variants == {"v1", "v2"}

Row(k, v) ==
    [channel_id |-> k[1], message_id |-> k[2],
     content |-> <<"content", v>>, link |-> <<"link", v>>, date |-> <<"date", v>>]

KeyOf(row) == <<row.channel_id, row.message_id>>

(***************************************************************************)
(* The messages table.                                                     *)
(***************************************************************************)

\* init_database: CREATE TABLE IF NOT EXISTS messages (... UNIQUE(channel_id,
\* message_id)); a fresh database holds no row.
init_database == <<>>

\* The ids of the rows of `table` whose (channel_id, message_id) is k.
RowsOf(table, k) == {i \in 1..Len(table) : KeyOf(table[i]) = k}

\* A lookup by message_id alone: WHERE message_id = ?.
is_message_seen_in_any_channel(table, channel_id, message_id) ==
    \E i \in 1..Len(table) : table[i].message_id = message_id

\* is_message_seen: SELECT 1 FROM messages WHERE channel_id = ? AND
\* message_id = ? LIMIT 1; fetchone() is not None.
is_message_seen(table, channel_id, message_id) ==
    \E i \in 1..Len(table) :
        table[i].channel_id = channel_id /\ table[i].message_id = message_id

\* A plain INSERT in place of INSERT OR IGNORE, without the UNIQUE constraint.
InsertAlways(table, row) == Append(table, row)

\* INSERT OR REPLACE in place of INSERT OR IGNORE: the conflicting row is
\* deleted and the new one added.
InsertOrReplace(table, row) ==
    LET kept == SelectSeq(table, LAMBDA r : KeyOf(r) # KeyOf(row))
    IN  Append(kept, row)

\* INSERT OR IGNORE INTO messages (...) VALUES (...), under UNIQUE(channel_id,
\* message_id): a row whose key is present is dropped, silently.
InsertOrIgnore(table, row) ==
    IF is_message_seen(table, row.channel_id, row.message_id)
    THEN table
    ELSE Append(table, row)

(***************************************************************************)
(* send_with_retry.  What client.send_message does is the transport's      *)
(* choice: it returns, raises FloodWaitError(seconds) or raises another    *)
(* exception (a permanent one such as ChannelPrivateError, or a transient  *)
(* one).                                                                   *)
(***************************************************************************)
max_retries == 3

FloodSeconds == {0, 59, 60, 61, 300}

Ok == [kind |-> "ok"]
FloodWaitError(seconds) == [kind |-> "flood", seconds |-> seconds]
SendError(permanent) == [kind |-> "error", permanent |-> permanent]

SendOutcomes ==
    {Ok} \cup {FloodWaitError(n) : n \in FloodSeconds}
         \cup {SendError(p) : p \in BOOLEAN}

Min(a, b) == IF a <= b THEN a ELSE b

\* The last attempt returning False instead of raising: the failure swallowed.
send_attempt_swallow(attempt, outcome) ==
    IF outcome.kind = "ok"
    THEN [next |-> "return", value |-> TRUE]
    ELSE IF attempt = max_retries - 1
    THEN [next |-> "return", value |-> FALSE]
    ELSE [next |-> "sleep",
          wait |-> IF outcome.kind = "flood" THEN Min(outcome.seconds, 60)
                   ELSE 2 ^ attempt]

\* The last attempt tested as `attempt == max_retries`: never true inside the
\* loop, so the last failure sleeps too and the loop runs out.
send_attempt_off_by_one(attempt, outcome) ==
    IF outcome.kind = "ok"
    THEN [next |-> "return", value |-> TRUE]
    ELSE IF attempt = max_retries
    THEN [next |-> "raise", exc |-> outcome]
    ELSE [next |-> "sleep",
          wait |-> IF outcome.kind = "flood" THEN Min(outcome.seconds, 60)
                   ELSE 2 ^ attempt]

\* The wait of a FloodWaitError taken as the server gives it, without the cap.
send_attempt_uncapped(attempt, outcome) ==
    IF outcome.kind = "ok"
    THEN [next |-> "return", value |-> TRUE]
    ELSE IF attempt = max_retries - 1
    THEN [next |-> "raise", exc |-> outcome]
    ELSE [next |-> "sleep",
          wait |-> IF outcome.kind = "flood" THEN outcome.seconds
                   ELSE 2 ^ attempt]

\* The backoff computed from the 1-based attempt number: 2, 4 instead of 1, 2.
send_attempt_backoff_from_one(attempt, outcome) ==
    IF outcome.kind = "ok"
    THEN [next |-> "return", value |-> TRUE]
    ELSE IF attempt = max_retries - 1
    THEN [next |-> "raise", exc |-> outcome]
    ELSE [next |-> "sleep",
          wait |-> IF outcome.kind = "flood" THEN Min(outcome.seconds, 60)
                   ELSE 2 ^ (attempt + 1)]

\* The body of `for attempt in range(max_retries)` once client.send_message
\* has returned or raised: return True, re-raise on the last attempt, or
\* sleep min(e.seconds, 60) after a FloodWaitError and 2 ** attempt after any
\* other exception.
send_attempt(attempt, outcome) ==
    IF outcome.kind = "ok"
    THEN [next |-> "return", value |-> TRUE]
    ELSE IF attempt = max_retries - 1
    THEN [next |-> "raise", exc |-> outcome]
    ELSE [next |-> "sleep",
          wait |-> IF outcome.kind = "flood" THEN Min(outcome.seconds, 60)
                   ELSE 2 ^ attempt]

\* `for attempt in range(max_retries)`: whether the loop has another round
\* after the round `attempt`; when it has none the function falls off its end
\* and returns None.
loop_continues(attempt) == attempt + 1 < max_retries

(***************************************************************************)
(* Texts.  A text is a sequence of words (the \w+ runs of the message),    *)
(* separated by single spaces.  The vocabulary holds one or two words for  *)
(* every rule of the spam filter:                                          *)
(*   Azov         a capitalised word that no keyword list matches (the     *)
(*                military list holds the Cyrillic spelling only)          *)
(*   Kyiv         a strong location keyword                                *)
(*   Iran         an off-topic keyword, and the Iran of the drone override *)
(*   Brigade      a military unit keyword                                  *)
(*   drones       a military unit keyword, and a drone/missile keyword     *)
(*   donate, fundraising     two donation keywords                         *)
(*   5168752144288613        a bank card number                            *)
(*   wayforpay    a payment domain                                         *)
(*   bitcoin      an off-topic keyword                                     *)
(*   news         a plain word                                             *)
(***************************************************************************)
MaxTextLen == 3
PadLen == 21

Words ==
    {"Azov", "Kyiv", "Iran", "Brigade", "drones", "donate", "fundraising",
     "5168752144288613", "wayforpay", "bitcoin", "news", "donat_cyr"}

\* "donat_cyr" is the word `donat` in Cyrillic letters, which DONATION_KEYWORDS
\* lists under Ukrainian and again under Russian.

\* The words that match [A-Z][a-z]+ (the Cyrillic classes match no word here).
Capitalised == {"Azov", "Kyiv", "Iran", "Brigade"}

\* str.isdigit()
IsDigit(w) == w = "5168752144288613"

\* text.lower()
Lower(w) ==
    CASE w = "Azov" -> "azov"
      [] w = "Kyiv" -> "kyiv"
      [] w = "Iran" -> "iran"
      [] w = "Brigade" -> "brigade"
      [] OTHER -> w

ShortTexts == UNION {[1..n -> Words] : n \in 0..MaxTextLen}

\* re.search(pattern, text): the pairs <<pattern, word>> where the pattern
\* matches inside the word.  Every keyword pattern starts with \b and is a
\* prefix of the words it matches; a payment domain matches anywhere.
MatchesWord ==
    {<<"brigade", "brigade">>, <<"drone", "drones">>,
     <<"donat", "donate">>, <<"fundraising", "fundraising">>,
     <<"donat_cyr", "donat_cyr">>,
     <<"d4 d4 d4 d4", "5168752144288613">>,
     <<"wayforpay", "wayforpay">>,
     <<"iran", "iran">>, <<"iranian", "iranian">>, <<"bitcoin", "bitcoin">>,
     <<"ukrain", "ukraine">>, <<"kyiv", "kyiv">>}

re_search(pattern, text) ==
    \E i \in 1..Len(text) : <<pattern, Lower(text[i])>> \in MatchesWord

\* The entries of the keyword lists that a word of the vocabulary, or a word
\* close to one, can match.
CARD_NUMBER_PATTERNS == <<"d4 d4 d4 d4", "d4-d4-d4-d4">>
PAYMENT_DOMAINS == <<"monobank.ua", "wayforpay", "paypal.me">>
DONATION_KEYWORDS ==
    <<"donat_cyr", "donat_cyr", "donat", "support us", "fundraising", "tip jar">>
MILITARY_UNIT_KEYWORDS == <<"brigade", "battalion", "drone", "uav">>
OFF_TOPIC_KEYWORDS == <<"israel", "gaza", "iran", "iranian", "crypto", "bitcoin">>
ukraine_russia_keywords == <<"ukrain", "kyiv", "russia", "moscow">>
drone_missile_keywords == <<"drone", "missile", "shahed", "geran">>

\* [kw for kw in keywords if re.search(kw, text_lower)]
Matching(keywords, text) ==
    SelectSeq(keywords, LAMBDA kw : re_search(kw, text))

NotSpam == [spam |-> FALSE, reason |-> <<>>]

\* is_financial_spam without the military exception.
is_financial_spam_no_exception(text) ==
    IF text = <<>> THEN NotSpam
    ELSE IF Matching(CARD_NUMBER_PATTERNS, text) # <<>>
    THEN [spam |-> TRUE, reason |-> <<"Bank card number detected">>]
    ELSE IF Matching(PAYMENT_DOMAINS, text) # <<>>
    THEN [spam |-> TRUE,
          reason |-> <<"Payment link detected", Matching(PAYMENT_DOMAINS, text)[1]>>]
    ELSE IF Len(Matching(DONATION_KEYWORDS, text)) >= 2
    THEN [spam |-> TRUE,
          reason |-> <<"Donation request detected",
                       Len(Matching(DONATION_KEYWORDS, text))>>]
    ELSE NotSpam

\* is_financial_spam: empty text and military fundraising are not spam; then
\* a card number, a payment domain or two donation keywords are.
is_financial_spam(text) ==
    IF text = <<>> THEN NotSpam
    ELSE IF Matching(MILITARY_UNIT_KEYWORDS, text) # <<>> THEN NotSpam
    ELSE IF Matching(CARD_NUMBER_PATTERNS, text) # <<>>
    THEN [spam |-> TRUE, reason |-> <<"Bank card number detected">>]
    ELSE IF Matching(PAYMENT_DOMAINS, text) # <<>>
    THEN [spam |-> TRUE,
          reason |-> <<"Payment link detected", Matching(PAYMENT_DOMAINS, text)[1]>>]
    ELSE IF Len(Matching(DONATION_KEYWORDS, text)) >= 2
    THEN [spam |-> TRUE,
          reason |-> <<"Donation request detected",
                       Len(Matching(DONATION_KEYWORDS, text))>>]
    ELSE NotSpam

\* An is_off_topic that asks for an on-topic keyword: a text without a
\* strong location keyword is off-topic, the empty text included.
is_off_topic_unless_located(text) ==
    IF Matching(ukraine_russia_keywords, text) # <<>> THEN NotSpam
    ELSE [spam |-> TRUE,
          reason |-> <<"Off-topic content detected",
                       SubSeq(Matching(OFF_TOPIC_KEYWORDS, text), 1,
                              Min(3, Len(Matching(OFF_TOPIC_KEYWORDS, text))))>>]

\* is_off_topic with the off-topic keywords tested before the on-topic
\* overrides.
is_off_topic_keywords_first(text) ==
    IF text = <<>> THEN NotSpam
    ELSE IF Len(Matching(OFF_TOPIC_KEYWORDS, text)) >= 1
    THEN [spam |-> TRUE,
          reason |-> <<"Off-topic content detected",
                       SubSeq(Matching(OFF_TOPIC_KEYWORDS, text), 1,
                              Min(3, Len(Matching(OFF_TOPIC_KEYWORDS, text))))>>]
    ELSE NotSpam

\* is_off_topic: a strong location keyword, or Iran with a drone or missile,
\* is on topic; otherwise one off-topic keyword makes the text off-topic.
is_off_topic(text) ==
    IF text = <<>> THEN NotSpam
    ELSE IF Matching(ukraine_russia_keywords, text) # <<>> THEN NotSpam
    ELSE IF re_search("iran", text) /\ Matching(drone_missile_keywords, text) # <<>>
    THEN NotSpam
    ELSE IF Len(Matching(OFF_TOPIC_KEYWORDS, text)) >= 1
    THEN [spam |-> TRUE,
          reason |-> <<"Off-topic content detected",
                       SubSeq(Matching(OFF_TOPIC_KEYWORDS, text), 1,
                              Min(3, Len(Matching(OFF_TOPIC_KEYWORDS, text))))>>]
    ELSE NotSpam

(***************************************************************************)
(* Learned patterns.  The table maps <<pattern_type, pattern_value,        *)
(* action>>, unique by ON CONFLICT(pattern_type, pattern_value, action),   *)
(* to the row's confidence.  A pattern_value is the sequence of the words  *)
(* that the code joins with spaces.                                        *)
(***************************************************************************)
MaxRecoveries == 3

EmptyTable == [key \in {} |-> 0]

\* extract_ngrams(text, n): the windows of n words, in order.
extract_ngrams(text, n) ==
    IF Len(text) < n THEN <<>>
    ELSE [i \in 1..(Len(text) - n + 1) |-> SubSeq(text, i, i + n - 1)]

\* The end of the run of capitalised words that starts at i.
RunEnd(text, i) ==
    CHOOSE j \in i..Len(text) :
        /\ \A m \in i..j : text[m] \in Capitalised
        /\ j = Len(text) \/ text[j + 1] \notin Capitalised

\* re.findall(r'\b[A-Z][a-z]+(?:\s+[A-Z][a-z]+)*\b', content): the maximal
\* runs of capitalised words, left to right.
RECURSIVE named_entities_from(_, _)
named_entities_from(text, i) ==
    IF i > Len(text) THEN <<>>
    ELSE IF text[i] \notin Capitalised THEN named_entities_from(text, i + 1)
    ELSE <<SubSeq(text, i, RunEnd(text, i))>>
            \o named_entities_from(text, RunEnd(text, i) + 1)

named_entities(text) == named_entities_from(text, 1)

Confidence(table, key) == IF key \in DOMAIN table THEN table[key] ELSE 0

entity_threshold == 2
trigram_threshold == 3
trigram_lookup_cap == 20

\* The element of seq at the least index of hits, as a one-element
\* sequence, or <<>> when hits is empty: the first pass of a for loop that
\* returns.
FirstWhere(seq, hits) ==
    IF hits = {} THEN <<>>
    ELSE <<seq[CHOOSE i \in hits : \A j \in hits : i <= j]>>

\* check_learned_patterns trusting every stored pattern (the queries' own
\* `confidence > 0`) without the thresholds.
check_learned_patterns_any_confidence(content, table) ==
    LET entities == named_entities(content)
        entity ==
            FirstWhere(entities,
                {i \in 1..Len(entities) :
                    Confidence(table, <<"named_entity", entities[i], "whitelist">>) > 0})
        all == extract_ngrams(content, 3)
        trigrams == SubSeq(all, 1, Min(trigram_lookup_cap, Len(all)))
        trigram ==
            FirstWhere(trigrams,
                {i \in 1..Len(trigrams) :
                    Confidence(table, <<"trigram", trigrams[i], "whitelist">>) > 0})
    IN  IF entity # <<>>
        THEN [match |-> TRUE, reason |-> <<"Trusted entity", entity[1]>>]
        ELSE IF trigram # <<>>
        THEN [match |-> TRUE, reason |-> <<"Trusted phrase pattern", trigram[1]>>]
        ELSE [match |-> FALSE, reason |-> <<>>]

\* check_learned_patterns: the first named entity of the content stored as a
\* whitelist pattern with confidence >= 2, else the first of the content's
\* first 20 trigrams stored with confidence >= 3.
check_learned_patterns(content, table) ==
    LET entities == named_entities(content)
        entity ==
            FirstWhere(entities,
                {i \in 1..Len(entities) :
                    Confidence(table, <<"named_entity", entities[i], "whitelist">>)
                        >= entity_threshold})
        all == extract_ngrams(content, 3)
        trigrams == SubSeq(all, 1, Min(trigram_lookup_cap, Len(all)))
        trigram ==
            FirstWhere(trigrams,
                {i \in 1..Len(trigrams) :
                    Confidence(table, <<"trigram", trigrams[i], "whitelist">>)
                        >= trigram_threshold})
    IN  IF entity # <<>>
        THEN [match |-> TRUE, reason |-> <<"Trusted entity", entity[1]>>]
        ELSE IF trigram # <<>>
        THEN [match |-> TRUE, reason |-> <<"Trusted phrase pattern", trigram[1]>>]
        ELSE [match |-> FALSE, reason |-> <<>>]

\* A channel_id argument is <<>> (None, the default) or <<id>>.
None == <<>>

\* is_spam taking a failed lookup for a match: the text passes unfiltered.
is_spam_fails_open(text, channel_id, table, lookup_raises) ==
    IF channel_id # None /\ lookup_raises
    THEN NotSpam
    ELSE IF channel_id # None /\ check_learned_patterns(text, table).match
    THEN NotSpam
    ELSE IF is_financial_spam(text).spam
    THEN [spam |-> TRUE, reason |-> <<"Financial spam">> \o is_financial_spam(text).reason]
    ELSE IF is_off_topic(text).spam
    THEN [spam |-> TRUE, reason |-> <<"Off-topic">> \o is_off_topic(text).reason]
    ELSE NotSpam

\* is_spam: a learned whitelist pattern first, when a channel_id is given
\* and the lookup does not raise; then financial spam; then off-topic.
\* A classifier that asks the off-topic rule before the financial rule.
is_spam_off_topic_first(text, channel_id, table, lookup_raises) ==
    IF /\ channel_id # None
       /\ ~lookup_raises
       /\ check_learned_patterns(text, table).match
    THEN NotSpam
    ELSE IF is_off_topic(text).spam
    THEN [spam |-> TRUE, reason |-> <<"Off-topic">> \o is_off_topic(text).reason]
    ELSE IF is_financial_spam(text).spam
    THEN [spam |-> TRUE, reason |-> <<"Financial spam">> \o is_financial_spam(text).reason]
    ELSE NotSpam

is_spam(text, channel_id, table, lookup_raises) ==
    IF /\ channel_id # None
       /\ ~lookup_raises
       /\ check_learned_patterns(text, table).match
    THEN NotSpam
    ELSE IF is_financial_spam(text).spam
    THEN [spam |-> TRUE, reason |-> <<"Financial spam">> \o is_financial_spam(text).reason]
    ELSE IF is_off_topic(text).spam
    THEN [spam |-> TRUE, reason |-> <<"Off-topic">> \o is_off_topic(text).reason]
    ELSE NotSpam

(***************************************************************************)
(* Learning from false positives.                                          *)
(***************************************************************************)
stop_words == {"the"}
common_starts == {<<"The">>, <<"A">>, <<"An">>, <<"In">>, <<"On">>, <<"At">>,
                  <<"To">>, <<"For">>, <<"With">>}

\* len(word) < 3: no word of the vocabulary is that short.
IsShortWord(w) == FALSE

\* len(e) > 2 for an entity: every capitalised word has at least 4 letters.
IsLongEnough(e) == Len(e) >= 1

max_trigrams == 10
max_entities == 8

\* The trigrams extract_patterns_from_message keeps: not made of stop words
\* and short words only, with a capitalised word or a number; the first 10.
meaningful_trigrams(content) ==
    LET kept == SelectSeq(extract_ngrams(content, 3),
                    LAMBDA t :
                        /\ ~(\A i \in 1..3 : t[i] \in stop_words \/ IsShortWord(t[i]))
                        /\ \E i \in 1..3 : t[i] \in Capitalised \/ IsDigit(t[i]))
    IN  SubSeq(kept, 1, Min(max_trigrams, Len(kept)))

\* list(set(filtered_entities)): the distinct entities that are no common
\* start and longer than 2 characters.
filtered_entities(content) ==
    {e \in {named_entities(content)[i] : i \in 1..Len(named_entities(content))} :
        e \notin common_starts /\ IsLongEnough(e)}

\* list(set(...))[:8]: 8 of the distinct entities, in the set's order, which
\* the code does not choose.
entity_choices(content) ==
    {S \in SUBSET filtered_entities(content) :
        Cardinality(S) = Min(max_entities, Cardinality(filtered_entities(content)))}

\* An INSERT OR REPLACE: the row is written anew with confidence 1.
add_learned_pattern_replace(table, pattern_type, pattern_value, action) ==
    (<<pattern_type, pattern_value, action>> :> 1) @@ table

\* add_learned_pattern: INSERT ... VALUES (?, ?, ?, 1) ON CONFLICT(...) DO
\* UPDATE SET confidence = confidence + 1.
add_learned_pattern(table, pattern_type, pattern_value, action) ==
    LET key == <<pattern_type, pattern_value, action>>
    IN  IF key \in DOMAIN table
        THEN [table EXCEPT ![key] = @ + 1]
        ELSE table @@ (key :> 1)

\* delete_learned_pattern: DELETE FROM learned_patterns WHERE id = ?, on the
\* row with that key.
delete_learned_pattern(table, key) ==
    [k \in DOMAIN table \ {key} |-> table[k]]

RECURSIVE add_all(_, _, _)
add_all(table, pattern_type, values) ==
    IF values = <<>> THEN table
    ELSE add_all(add_learned_pattern(table, pattern_type, Head(values), "whitelist"),
                 pattern_type, Tail(values))

\* A set as a sequence, in some order: the result of add_all does not depend
\* on it, the values being distinct.
RECURSIVE SeqOf(_)
SeqOf(S) ==
    IF S = {} THEN <<>>
    ELSE LET x == CHOOSE y \in S : TRUE IN <<x>> \o SeqOf(S \ {x})

\* The rows of spam_filtered that a review can recover: id -> row.  No code
\* of the repository writes the table; these rows stand for what it holds.
spam_filtered ==
    << [channel_id |-> 1, message_id |-> 1, link |-> "t.me/c/1/1",
        content_preview |-> <<"Azov", "donate", "5168752144288613">>],
       [channel_id |-> 1, message_id |-> 2, link |-> "t.me/c/1/2",
        content_preview |-> <<"donate", "5168752144288613", "news">>],
       [channel_id |-> 1, message_id |-> 3, link |-> "t.me/c/1/3",
        content_preview |-> <<"Iran", "bitcoin", "news">>] >>

(***************************************************************************)
(* create_message.  A string is a sequence of runs [ch, n]: n copies of    *)
(* the symbol ch.  The symbols of an input string are characters: "x" (a   *)
(* character html.escape leaves alone), "&", "<" and "'".  The output      *)
(* holds the entities html.escape writes for them and the literal pieces   *)
(* of the f-strings, each a symbol as wide as its text.                    *)
(***************************************************************************)
Run(ch, n) == IF n = 0 THEN <<>> ELSE <<[ch |-> ch, n |-> n]>>

\* The number of characters of a symbol.
Width(ch) ==
    CASE ch = "&amp;" -> 5
      [] ch = "&lt;" -> 4
      [] ch = "&#x27;" -> 6
      [] ch = "<p><p><br>\n<b>" -> 14
      [] ch = "</b>\n<br>\n\n</p><p>[TRANSLATED MESSAGE]\n" -> 39
      [] ch = "\n\n</p><p><br>\n" -> 14
      [] ch = " ->| </p></p>" -> 10
      [] ch = "<p><br>\n<b>" -> 11
      [] ch = "</b>\n<br>\n\n" -> 11
      [] ch = " ->| </p>" -> 6
      [] ch = "..." -> 3
      [] OTHER -> 1

\* len(s)
RECURSIVE StrLen(_)
StrLen(s) ==
    IF s = <<>> THEN 0 ELSE Head(s).n * Width(Head(s).ch) + StrLen(Tail(s))

\* s[:k] for a string of characters.
RECURSIVE Take(_, _)
Take(s, k) ==
    IF s = <<>> \/ k <= 0 THEN <<>>
    ELSE IF Head(s).n <= k THEN <<Head(s)>> \o Take(Tail(s), k - Head(s).n)
    ELSE <<[ch |-> Head(s).ch, n |-> k]>>

\* html.escape(s): & < > " ' become entities.
html_escape(s) ==
    [i \in 1..Len(s) |->
        [ch |-> CASE s[i].ch = "&" -> "&amp;"
                  [] s[i].ch = "<" -> "&lt;"
                  [] s[i].ch = "'" -> "&#x27;"
                  [] OTHER -> s[i].ch,
         n |-> s[i].n]]

Lit(text) == <<[ch |-> text, n |-> 1]>>

\* The f-string of the `if translation:` branch, used again after truncation.
translated_form(chat_name, translation, link) ==
    Lit("<p><p><br>\n<b>") \o html_escape(chat_name)
        \o Lit("</b>\n<br>\n\n</p><p>[TRANSLATED MESSAGE]\n") \o html_escape(translation)
        \o Lit("\n\n</p><p><br>\n") \o html_escape(link) \o Lit(" ->| </p></p>")

\* The f-string of the else branch.
untranslated_form(chat_name, link) ==
    Lit("<p><br>\n<b>") \o html_escape(chat_name)
        \o Lit("</b>\n<br>\n\n") \o html_escape(link) \o Lit(" ->| </p>")

message_limit == 3980
attachment_limit == 1024
truncate_at == 3700

\* create_message(chat_name, untranslated_msg, translation, link)
create_message(chat_name, untranslated_msg, translation, link) ==
    LET message == IF translation # <<>>
                   THEN translated_form(chat_name, translation, link)
                   ELSE untranslated_form(chat_name, link)
    IN  IF StrLen(message) >= message_limit
        THEN translated_form(chat_name,
                             Take(translation, truncate_at) \o Lit("..."), link)
        ELSE message

(***************************************************************************)
(* handle_message.  Each call is a task of the event loop; it runs from    *)
(* one await to the next without interruption.  A frame is                 *)
(*   pc         "idle": the event has not arrived                          *)
(*              "get_chat": awaiting event.get_chat()                      *)
(*              "translate": awaiting translate_async                      *)
(*              "send": awaiting client.send_message in send_with_retry    *)
(*              "sleep": awaiting asyncio.sleep in send_with_retry         *)
(*              "done": the handler has returned                           *)
(*   key        <<chat.id, event.id>>                                      *)
(*   text       event.message.message, as the words is_spam reads          *)
(*   media      the kind of event.message.media                            *)
(*   content    what translate_async returned                              *)
(*   dests      the channels still to send to, the current one first       *)
(*   attempt    the loop variable of the current send_with_retry           *)
(*   delivered  the channels this task's send_message calls reached        *)
(*   stores     what the task's calls of store_message did, in order       *)
(*   result     how the handler ended                                      *)
(*   error      the call whose exception the handler logged, "none" if none*)
(*   overlap    the tasks handling the same key that were running when     *)
(*              this one arrived                                           *)
(***************************************************************************)
NumTasks == 2
Tasks == 1..NumTasks

\* "webpage" is MessageMediaWebPage; "video" a document whose mime_type
\* holds 'video'; "other" a media that is neither photo nor document.
MediaKinds == {"none", "webpage", "photo", "video", "document", "other"}

\* An empty message, a war report, and a request for money with a card.
HandlerTexts == {<<>>, <<"Kyiv", "news">>, <<"donate", "5168752144288613">>}

\* translate_async: the translation, or the placeholder of the exception
\* that translator.translate_text raised.
TranslateOutcomes == {"ok", "QuotaExceededException", "AuthorizationException",
                      "DeepLException", "Exception"}
translate_async(outcome) ==
    CASE outcome = "ok" -> "translation"
      [] outcome = "QuotaExceededException" -> "[Translation unavailable: quota exceeded]"
      [] outcome = "AuthorizationException" -> "[Translation unavailable: auth error]"
      [] outcome = "DeepLException" -> "[Translation failed]"
      [] OTHER -> "[Translation error]"

\* The channels handle_message sends an item to, in order.
destinations(media) ==
    CASE media = "none" -> <<"news_channel">>
      [] media = "photo" -> <<"news_channel", "photos_channel">>
      [] media = "video" -> <<"videos_channel">>
      [] media = "document" -> <<"news_channel">>
      [] OTHER -> <<>>

\* The sends of handle_message that pass file=event.message.media: those of
\* the photo and document branches.
sent_with_file(media) == media \in {"photo", "video", "document"}

StoreFaults == {"none", "connect", "execute"}

\* What client.send_message does to a handler: the handler keeps no record
\* of how long it slept, so one flood wait stands for all of them.
HandlerSendOutcomes == {Ok, FloodWaitError(60), SendError(FALSE)}

\* store_message as one call: get_db_connection() raising leaves it as an
\* exception; an exception of execute or commit is logged; otherwise the
\* row is inserted or ignored.
\* A store_message whose failed commit leaves the inserted row behind.
store_message_keeps_failed_row(table, row, fault) ==
    CASE fault = "connect" -> [table |-> table, result |-> "raised"]
      [] fault = "execute" -> [table |-> InsertOrIgnore(table, row), result |-> "logged"]
      [] OTHER ->
           [table |-> InsertOrIgnore(table, row),
            result |-> IF InsertOrIgnore(table, row) = table
                       THEN "ignored" ELSE "inserted"]

store_message(table, row, fault) ==
    CASE fault = "connect" -> [table |-> table, result |-> "raised"]
      [] fault = "execute" -> [table |-> table, result |-> "logged"]
      [] OTHER ->
           [table |-> InsertOrIgnore(table, row),
            result |-> IF InsertOrIgnore(table, row) = table
                       THEN "ignored" ELSE "inserted"]

\* The row handle_message stores: untranslated_msg, link, date.
EventRow(task) ==
    [channel_id |-> task.key[1], message_id |-> task.key[2],
     content |-> task.text, link |-> <<"t.me/c", task.key[1], task.key[2]>>,
     date |-> <<"date", task.key>>]

IdleTask ==
    [pc |-> "idle", key |-> <<>>, text |-> <<>>, media |-> "none",
     content |-> "", dests |-> <<>>, attempt |-> 0, delivered |-> {},
     stores |-> <<>>, result |-> "none", error |-> "none", overlap |-> {}]

Running(task) == task.pc \notin {"idle", "done"}

Finish(task, result) == [task EXCEPT !.pc = "done", !.result = result]

\* A handler without the except clauses: the exception leaves handle_message.
FailPropagates(task, call) ==
    [task EXCEPT !.pc = "done", !.result = "propagated", !.error = call]

\* The except clauses of handle_message: the exception is logged.
Fail(task, call) == [Finish(task, "failed") EXCEPT !.error = call]

\* The handler returning after its last send without store_message.
FinishWithoutStoring(task, table, fault) ==
    [task |-> Finish(task, "completed"), table |-> table]

\* `# Store after successful processing`: store_message(...) as the last
\* statement of the try block, and the except clauses around it.
StoreAndFinish(task, table, fault) ==
    LET r == store_message(table, EventRow(task), fault)
    IN  [task |-> [(IF r.result = "raised" THEN Fail(task, "store_message")
                                           ELSE Finish(task, "completed"))
                      EXCEPT !.stores = Append(@, r.result)],
         table |-> r.table]

\* The handler from create_message on, once the content is known: the first
\* send_with_retry, or store_message when the media has no channel.
AfterTranslate(task, content, table, fault) ==
    LET t1 == [task EXCEPT !.content = content, !.dests = destinations(task.media),
                           !.attempt = 0]
    IN  IF t1.dests = <<>>
        THEN StoreAndFinish(t1, table, fault)
        ELSE [task |-> [t1 EXCEPT !.pc = "send"], table |-> table]

(***************************************************************************)
(* One call of send_with_retry.  The frame is                              *)
(*   pc       "send": awaiting client.send_message                         *)
(*            "sleep": awaiting asyncio.sleep                              *)
(*            "returned" | "raised"                                        *)
(*   attempt  the loop variable                                            *)
(*   trace    what the call did: <<"send", outcome>> and <<"sleep", n>>    *)
(*   value    the value returned: "True", "False" or "None"                *)
(*   exc      the exception raised: the outcome of the last send           *)
(***************************************************************************)
NoCall == [pc |-> "none"]
NoExc == [kind |-> "none"]
NoLearnerCall == [op |-> "none"]
NoSeenCall == [called |-> FALSE]

\* The variables of a specification that is not running.
StoreIdle == messages = init_database /\ dbLock = {} /\ callers = <<>>
DeliverIdle == dcall = NoCall
ClassifyIdle ==
    /\ learned_patterns = EmptyTable
    /\ spam_recovered = <<>>
    /\ verdict = [called |-> FALSE]
    /\ lcall = NoLearnerCall
ComposeIdle == composed = [called |-> FALSE]
HandleIdle == tasks = <<>>
SeenIdle == scall = NoSeenCall

\* client.send_message returns or raises, and the loop body runs to its next
\* await.
DeliverSend ==
    /\ dcall.pc = "send"
    /\ \E outcome \in SendOutcomes :
          LET r == send_attempt(dcall.attempt, outcome)
              tr == Append(dcall.trace, <<"send", outcome>>)
          IN  dcall' =
                CASE r.next = "return" ->
                       [dcall EXCEPT !.pc = "returned", !.trace = tr,
                                     !.value = IF r.value THEN "True" ELSE "False"]
                  [] r.next = "raise" ->
                       [dcall EXCEPT !.pc = "raised", !.trace = tr,
                                     !.exc = r.exc]
                  [] OTHER ->
                       [dcall EXCEPT !.pc = "sleep",
                                     !.trace = Append(tr, <<"sleep", r.wait>>)]
    /\ UNCHANGED notDeliver

\* asyncio.sleep is over: the next round of the loop, or its end.
DeliverWake ==
    /\ dcall.pc = "sleep"
    /\ dcall' = IF loop_continues(dcall.attempt)
                THEN [dcall EXCEPT !.pc = "send", !.attempt = @ + 1]
                ELSE [dcall EXCEPT !.pc = "returned", !.value = "None"]
    /\ UNCHANGED notDeliver

DeliverInit ==
    /\ dcall = [pc |-> "send", attempt |-> 0, trace |-> <<>>,
                value |-> "none", exc |-> NoExc]
    /\ StoreIdle
    /\ ClassifyIdle
    /\ ComposeIdle
    /\ SeenIdle
    /\ HandleIdle

DeliverNext == DeliverSend \/ DeliverWake

SpecDeliver == DeliverInit /\ [][DeliverNext]_vars

(***************************************************************************)
(* store_message, one step per storage call.  A frame is                   *)
(*   pc      "idle" | "connected" | "executed" | "done"                    *)
(*   row     the arguments                                                 *)
(*   t0      the number of committed rows when the call began              *)
(*   result  "inserted" | "ignored": what INSERT OR IGNORE did             *)
(*           "logged": an exception caught by `except Exception`           *)
(*           "raised": an exception that left store_message                *)
(***************************************************************************)
IdleFrame == [pc |-> "idle", row |-> <<>>, result |-> "none", t0 |-> 0]

\* conn = get_db_connection(): before the try, so a failure to open the
\* database leaves store_message as an exception.
StoreConnect(c) ==
    /\ callers[c].pc = "idle"
    /\ \E k \in Keys, v \in Variants, opens \in BOOLEAN :
          callers' = [callers EXCEPT ![c] =
              IF opens
              THEN [pc |-> "connected", row |-> Row(k, v), result |-> "none",
                    t0 |-> Len(messages)]
              ELSE [pc |-> "done", row |-> Row(k, v), result |-> "raised",
                    t0 |-> Len(messages)]]
    /\ UNCHANGED <<messages, dbLock, notStore>>

\* cursor.execute(INSERT OR IGNORE ...): the statement takes sqlite's write
\* lock; the row stays invisible to other connections until the commit.
StoreExecute(c) ==
    /\ callers[c].pc = "connected"
    /\ dbLock = {}
    /\ callers' = [callers EXCEPT ![c].pc = "executed"]
    /\ dbLock' = {c}
    /\ UNCHANGED <<messages, notStore>>

\* cursor.execute raising (the database stayed locked past timeout=10.0, an
\* I/O error): caught by `except Exception`, logged; finally closes.
StoreExecuteFails(c) ==
    /\ callers[c].pc = "connected"
    /\ callers' = [callers EXCEPT ![c].pc = "done", ![c].result = "logged"]
    /\ UNCHANGED <<messages, dbLock, notStore>>

\* conn.commit(), then finally: conn.close().
StoreCommit(c) ==
    /\ callers[c].pc = "executed"
    /\ dbLock = {c}
    /\ messages' = InsertOrIgnore(messages, callers[c].row)
    /\ callers' = [callers EXCEPT
          ![c].pc = "done",
          ![c].result = IF messages' = messages THEN "ignored" ELSE "inserted"]
    /\ dbLock' = {}
    /\ UNCHANGED notStore

StoreInit ==
    /\ messages = init_database
    /\ dbLock = {}
    /\ callers = [c \in Callers |-> IdleFrame]
    /\ DeliverIdle
    /\ ClassifyIdle
    /\ ComposeIdle
    /\ SeenIdle
    /\ HandleIdle

StoreNext ==
    \E c \in Callers :
        \/ StoreConnect(c)
        \/ StoreExecute(c)
        \/ StoreExecuteFails(c)
        \/ StoreCommit(c)

SpecStore == StoreInit /\ [][StoreNext]_vars

(***************************************************************************)
(* SpecUpsert: callers of add_learned_pattern racing on the                *)
(* learned_patterns table, one step per storage call.  A frame is          *)
(*   pc       "idle" | "connected" | "executed" | "done"                   *)
(*   key      the arguments (pattern_type, pattern_value, action)          *)
(*   pending  the table as the statement left it inside its transaction    *)
(*   raced    the calls that were between connect and close when this one  *)
(*            connected                                                    *)
(*   result   "ok": the call returned; "raised": an exception left it      *)
(***************************************************************************)
UpsertArgs ==
    {<<"named_entity", <<"Azov">>, "whitelist">>,
     <<"trigram", <<"donate", "5168752144288613", "news">>, "whitelist">>}

IdleUpsert ==
    [pc |-> "idle", key |-> <<>>, pending |-> EmptyTable, raced |-> {},
     result |-> "none"]

notUpsert ==
    <<messages, spam_recovered, verdict, lcall, deliverVars, composeVars,
      handleVars, seenVars>>

\* conn = get_db_connection(): before the try, so a failure to open the
\* database leaves add_learned_pattern as an exception.
UpsertConnect(c) ==
    /\ callers[c].pc = "idle"
    /\ \E key \in UpsertArgs, opens \in BOOLEAN :
          callers' = [callers EXCEPT ![c] =
              [IdleUpsert EXCEPT
                  !.pc = IF opens THEN "connected" ELSE "done",
                  !.key = key,
                  !.raced = {d \in Callers :
                               callers[d].pc \in {"connected", "executed"}},
                  !.result = IF opens THEN "none" ELSE "raised"]]
    /\ UNCHANGED <<learned_patterns, dbLock, notUpsert>>

\* A read of the row followed by a write of confidence + 1, without the
\* write lock in between.
UpsertExecuteUnlocked(c) ==
    /\ callers[c].pc = "connected"
    /\ callers' = [callers EXCEPT
          ![c].pc = "executed",
          ![c].pending = add_learned_pattern(learned_patterns, callers[c].key[1],
                                             callers[c].key[2], callers[c].key[3])]
    /\ dbLock' = dbLock \cup {c}
    /\ UNCHANGED <<learned_patterns, notUpsert>>

\* cursor.execute(INSERT ... ON CONFLICT ... DO UPDATE SET confidence =
\* confidence + 1): one statement, which takes sqlite's write lock, reads the
\* row and writes it; the change stays invisible to other connections until
\* the commit.
UpsertExecute(c) ==
    /\ callers[c].pc = "connected"
    /\ dbLock = {}
    /\ callers' = [callers EXCEPT
          ![c].pc = "executed",
          ![c].pending = add_learned_pattern(learned_patterns, callers[c].key[1],
                                             callers[c].key[2], callers[c].key[3])]
    /\ dbLock' = {c}
    /\ UNCHANGED <<learned_patterns, notUpsert>>

\* cursor.execute raising (the database stayed locked past timeout=10.0, an
\* I/O error): nothing catches it; finally closes.
UpsertExecuteFails(c) ==
    /\ callers[c].pc = "connected"
    /\ callers' = [callers EXCEPT ![c].pc = "done", ![c].result = "raised"]
    /\ UNCHANGED <<learned_patterns, dbLock, notUpsert>>

\* conn.commit(), then finally: conn.close().
UpsertCommit(c) ==
    /\ callers[c].pc = "executed"
    /\ c \in dbLock
    /\ learned_patterns' = callers[c].pending
    /\ callers' = [callers EXCEPT ![c].pc = "done", ![c].result = "ok"]
    /\ dbLock' = dbLock \ {c}
    /\ UNCHANGED notUpsert

\* conn.commit() raising: conn.close() rolls the transaction back.
UpsertCommitFails(c) ==
    /\ callers[c].pc = "executed"
    /\ c \in dbLock
    /\ callers' = [callers EXCEPT ![c].pc = "done", ![c].result = "raised"]
    /\ dbLock' = dbLock \ {c}
    /\ UNCHANGED <<learned_patterns, notUpsert>>

UpsertInit ==
    /\ learned_patterns = EmptyTable
    /\ dbLock = {}
    /\ callers = [c \in Callers |-> IdleUpsert]
    /\ messages = init_database
    /\ spam_recovered = <<>>
    /\ verdict = [called |-> FALSE]
    /\ lcall = NoLearnerCall
    /\ DeliverIdle
    /\ ComposeIdle
    /\ SeenIdle
    /\ HandleIdle

UpsertNext ==
    \E c \in Callers :
        \/ UpsertConnect(c)
        \/ UpsertExecute(c)
        \/ UpsertExecuteFails(c)
        \/ UpsertCommit(c)
        \/ UpsertCommitFails(c)

SpecUpsert == UpsertInit /\ [][UpsertNext]_vars

(***************************************************************************)
(* SpecSeen: store_message and is_message_seen, one call after another, on *)
(* the messages of two channels.                                           *)
(***************************************************************************)
NumSeenChannels == 2
NumSeenIds == 2

SeenKeys == (1..NumSeenChannels) \X (1..NumSeenIds)

\* store_message(channel_id, message_id, content, link, date), with or
\* without a failure of the storage.
SeenStore(k, v) ==
    /\ \E fault \in StoreFaults :
          messages' = store_message(messages, Row(k, v), fault).table
    /\ UNCHANGED <<scall, notSeen>>

\* is_message_seen(channel_id, message_id)
SeenLookup(channel_id, message_id) ==
    /\ scall' = [called |-> TRUE, channel_id |-> channel_id,
                 message_id |-> message_id,
                 result |-> is_message_seen(messages, channel_id, message_id)]
    /\ UNCHANGED <<messages, notSeen>>

SeenInit ==
    /\ messages = init_database
    /\ scall = NoSeenCall
    /\ dbLock = {}
    /\ callers = <<>>
    /\ DeliverIdle
    /\ ClassifyIdle
    /\ ComposeIdle
    /\ HandleIdle

SeenNext ==
    \E k \in SeenKeys :
        \/ \E v \in Variants : SeenStore(k, v)
        \/ SeenLookup(k[1], k[2])

SpecSeen == SeenInit /\ [][SeenNext]_vars

(***************************************************************************)
(* SpecClassify: reviews learn from the rows of spam_filtered, and is_spam *)
(* is called on the text and channel_id chosen at the start.               *)
(***************************************************************************)

\* The texts is_spam is called on: the short ones, and each content_preview
\* behind PadLen plain words.
Padding == [i \in 1..PadLen |-> "news"]
ClassifyTexts ==
    ShortTexts \cup {Padding \o spam_filtered[i].content_preview :
                        i \in 1..Len(spam_filtered)}
ChannelArgs == {None} \cup {<<c>> : c \in Channels}

\* should_forward: bool = False
should_forward_default == FALSE

\* A review that records the default flag whatever flag it was given.
LearnRecordingDefaultFlag(spam_id, should_forward) ==
    /\ spam_id \in 1..Len(spam_filtered)
    /\ LET content == spam_filtered[spam_id].content_preview
       IN  \E entities \in entity_choices(content) :
              LET patterns == [trigram |-> meaningful_trigrams(content),
                               named_entity |-> entities]
                  learned == add_all(add_all(learned_patterns, "trigram",
                                             patterns.trigram),
                                     "named_entity", SeqOf(patterns.named_entity))
              IN  /\ Len(spam_recovered) < MaxRecoveries
                  /\ learned_patterns' = learned
                  /\ spam_recovered' = Append(spam_recovered,
                        [spam_id |-> spam_id, forwarded |-> should_forward_default,
                         learned_patterns_json |-> patterns])
    /\ verdict' = [verdict EXCEPT !.called = FALSE, !.repeated = FALSE,
                                  !.lookup_raises = FALSE,
                                  !.spam = FALSE, !.reason = <<>>]
    /\ lcall' = [op |-> "learn_from_false_positive", spam_id |-> spam_id,
                 should_forward |-> should_forward, result |-> "success"]
    /\ UNCHANGED notClassify

\* learn_from_false_positive(spam_id, should_forward): every extracted
\* pattern is added to the whitelist and the recovery is recorded.  The
\* verdict is the result of the last call of is_spam on the table as it is:
\* a verdict given on the table before the change is dropped.
LearnFromFalsePositive(spam_id, should_forward) ==
    /\ spam_id \in 1..Len(spam_filtered)
    /\ LET content == spam_filtered[spam_id].content_preview
       IN  \E entities \in entity_choices(content) :
              LET patterns == [trigram |-> meaningful_trigrams(content),
                               named_entity |-> entities]
                  learned == add_all(add_all(learned_patterns, "trigram",
                                             patterns.trigram),
                                     "named_entity", SeqOf(patterns.named_entity))
              IN  /\ Len(spam_recovered) < MaxRecoveries
                  /\ learned_patterns' = learned
                  /\ spam_recovered' = Append(spam_recovered,
                        [spam_id |-> spam_id, forwarded |-> should_forward,
                         learned_patterns_json |-> patterns])
    /\ verdict' = [verdict EXCEPT !.called = FALSE, !.repeated = FALSE,
                                  !.lookup_raises = FALSE,
                                  !.spam = FALSE, !.reason = <<>>]
    /\ lcall' = [op |-> "learn_from_false_positive", spam_id |-> spam_id,
                 should_forward |-> should_forward, result |-> "success"]
    /\ UNCHANGED notClassify

\* A call of is_spam that counts its whitelist hits: the entities of a
\* whitelisted text are learned once more.
ClassifyCountingHits ==
    /\ \E lookup_raises \in (IF verdict.channel_id = None THEN {FALSE} ELSE BOOLEAN) :
          LET r == is_spam(verdict.text, verdict.channel_id, learned_patterns,
                           lookup_raises)
              hit == /\ verdict.channel_id # None
                     /\ ~lookup_raises
                     /\ check_learned_patterns(verdict.text, learned_patterns).match
          IN  /\ verdict' = [verdict EXCEPT !.called = TRUE,
                                            !.repeated = verdict.called,
                                            !.lookup_raises = lookup_raises,
                                            !.spam = r.spam, !.reason = r.reason]
              /\ learned_patterns' =
                    IF hit THEN add_all(learned_patterns, "named_entity",
                                        named_entities(verdict.text))
                    ELSE learned_patterns
    /\ UNCHANGED <<spam_recovered, lcall, notClassify>>

\* is_spam(text, link, channel_id) is called; the lookup of the learned
\* patterns, made when a channel_id is given, may raise.  `repeated` tells
\* that is_spam had been called on this table before.
Classify ==
    /\ \E lookup_raises \in (IF verdict.channel_id = None THEN {FALSE} ELSE BOOLEAN) :
          LET r == is_spam(verdict.text, verdict.channel_id, learned_patterns,
                           lookup_raises)
          IN  verdict' = [verdict EXCEPT !.called = TRUE,
                                         !.repeated = verdict.called,
                                         !.lookup_raises = lookup_raises,
                                         !.spam = r.spam, !.reason = r.reason]
    /\ UNCHANGED <<learned_patterns, spam_recovered, lcall, notClassify>>

ClassifyInit ==
    /\ learned_patterns = EmptyTable
    /\ spam_recovered = <<>>
    /\ lcall = NoLearnerCall
    /\ \E text \in ClassifyTexts, channel_id \in ChannelArgs :
          verdict = [text |-> text, channel_id |-> channel_id, called |-> FALSE,
                     repeated |-> FALSE,
                     lookup_raises |-> FALSE, spam |-> FALSE, reason |-> <<>>]
    /\ StoreIdle
    /\ DeliverIdle
    /\ ComposeIdle
    /\ SeenIdle
    /\ HandleIdle

ClassifyNext ==
    \/ \E spam_id \in 1..Len(spam_filtered) :
          LearnFromFalsePositive(spam_id, should_forward_default)
    \/ Classify

SpecClassify == ClassifyInit /\ [][ClassifyNext]_vars

(***************************************************************************)
(* SpecLearn: the functions of spam_learning are called one after another  *)
(* on the learned_patterns and spam_recovered tables, and is_spam is       *)
(* called in between.                                                      *)
(***************************************************************************)
MaxConfidence == 3
MaxLearnRecoveries == 1

\* The arguments of the direct calls of add_learned_pattern.
AddArgs ==
    {<<"named_entity", <<"Azov">>, "whitelist">>,
     <<"named_entity", <<"Azov">>, "blacklist">>,
     <<"trigram", <<"donate", "5168752144288613", "news">>, "whitelist">>}

\* The ids a review can pass: those of the rows of spam_filtered and one
\* that no row has.
SpamIds == 1..(Len(spam_filtered) + 1)

\* The contents check_learned_patterns is called on: the previews, and a
\* preview that follows 21 plain words.
LearnContents ==
    {spam_filtered[i].content_preview : i \in 1..Len(spam_filtered)}
        \cup {Padding \o spam_filtered[2].content_preview}

\* learn_from_false_positive(spam_id, should_forward) on the id of a row.
Learn(spam_id, should_forward) ==
    /\ Len(spam_recovered) < MaxLearnRecoveries
    /\ LearnFromFalsePositive(spam_id, should_forward)

\* learn_from_false_positive on an id that spam_filtered does not hold:
\* `return {'error': 'Spam message not found'}`, nothing is written.
LearnNotFound(spam_id, should_forward) ==
    /\ spam_id \notin 1..Len(spam_filtered)
    /\ lcall' = [op |-> "learn_from_false_positive", spam_id |-> spam_id,
                 should_forward |-> should_forward, result |-> "error"]
    /\ UNCHANGED <<learned_patterns, spam_recovered, verdict, notClassify>>

\* add_learned_pattern(pattern_type, pattern_value, action), called by
\* itself.  The verdict given on the table before the change is dropped.
AddLearnedPattern(pattern_type, pattern_value, action) ==
    /\ Confidence(learned_patterns, <<pattern_type, pattern_value, action>>)
          < MaxConfidence
    /\ learned_patterns' =
          add_learned_pattern(learned_patterns, pattern_type, pattern_value, action)
    /\ lcall' = [op |-> "add_learned_pattern",
                 key |-> <<pattern_type, pattern_value, action>>]
    /\ verdict' = [verdict EXCEPT !.called = FALSE, !.repeated = FALSE,
                                  !.lookup_raises = FALSE,
                                  !.spam = FALSE, !.reason = <<>>]
    /\ UNCHANGED <<spam_recovered, notClassify>>

\* delete_learned_pattern(pattern_id): DELETE ... WHERE id = ?, and
\* `return cursor.rowcount > 0`.  The id is given as the key of the row
\* that has it; a key of no row stands for an id of no row.
DeleteLearnedPattern(key) ==
    /\ learned_patterns' = delete_learned_pattern(learned_patterns, key)
    /\ lcall' = [op |-> "delete_learned_pattern", key |-> key,
                 deleted |-> key \in DOMAIN learned_patterns]
    /\ verdict' = [verdict EXCEPT !.called = FALSE, !.repeated = FALSE,
                                  !.lookup_raises = FALSE,
                                  !.spam = FALSE, !.reason = <<>>]
    /\ UNCHANGED <<spam_recovered, notClassify>>

\* A lookup that ages the table: every confidence above 1 drops by one.
CheckLearnedPatternsDecaying(content) ==
    /\ lcall' = [op |-> "check_learned_patterns", content |-> content,
                 returned |-> check_learned_patterns(content, learned_patterns)]
    /\ learned_patterns' =
          [k \in DOMAIN learned_patterns |->
              IF learned_patterns[k] > 1 THEN learned_patterns[k] - 1
              ELSE learned_patterns[k]]
    /\ UNCHANGED <<spam_recovered, verdict, notClassify>>

\* check_learned_patterns(content, channel_id), called by itself.
CheckLearnedPatterns(content) ==
    /\ lcall' = [op |-> "check_learned_patterns", content |-> content,
                 returned |-> check_learned_patterns(content, learned_patterns)]
    /\ UNCHANGED <<learned_patterns, spam_recovered, verdict, notClassify>>

LearnInit ==
    /\ learned_patterns = EmptyTable
    /\ spam_recovered = <<>>
    /\ lcall = NoLearnerCall
    /\ verdict = [text |-> spam_filtered[1].content_preview,
                  channel_id |-> <<1>>, called |-> FALSE, repeated |-> FALSE,
                  lookup_raises |-> FALSE, spam |-> FALSE, reason |-> <<>>]
    /\ StoreIdle
    /\ DeliverIdle
    /\ ComposeIdle
    /\ SeenIdle
    /\ HandleIdle

LearnNext ==
    \/ \E spam_id \in SpamIds, should_forward \in BOOLEAN :
          \/ Learn(spam_id, should_forward)
          \/ LearnNotFound(spam_id, should_forward)
    \/ \E args \in AddArgs : AddLearnedPattern(args[1], args[2], args[3])
    \/ \E key \in DOMAIN learned_patterns \cup AddArgs : DeleteLearnedPattern(key)
    \/ \E content \in LearnContents : CheckLearnedPatterns(content)
    \/ Classify

SpecLearn == LearnInit /\ [][LearnNext]_vars

(***************************************************************************)
(* SpecRecover: learn_from_false_positive, one step per storage call, one  *)
(* call after another.  The frame of the call is lcall:                    *)
(*   pc        "adding": in the loop over the extracted patterns           *)
(*             "done": the call is over                                    *)
(*   patterns  what extract_patterns_from_message returned                 *)
(*   todo      the (type, value) pairs the loop has not reached yet        *)
(*   result    "success" | "error": what the call returned                 *)
(*             "raised": an exception left it                              *)
(***************************************************************************)
notRecover ==
    <<storeVars, verdict, deliverVars, composeVars, handleVars, seenVars>>

Recovering == lcall.op = "learn_from_false_positive" /\ lcall.pc = "adding"

\* for pattern_type, pattern_values in patterns.items(): for pattern_value
\* in pattern_values: the pairs in the order of the loop.
PatternPairs(patterns) ==
    [i \in 1..Len(patterns.trigram) |-> <<"trigram", patterns.trigram[i]>>]
    \o [i \in 1..Cardinality(patterns.named_entity) |->
            <<"named_entity", SeqOf(patterns.named_entity)[i]>>]

\* The SELECT on spam_filtered finds the row; the patterns are extracted.
RecoverStart(spam_id, should_forward) ==
    /\ ~Recovering
    /\ spam_id \in 1..Len(spam_filtered)
    /\ Len(spam_recovered) < MaxLearnRecoveries
    /\ \A key \in DOMAIN learned_patterns : learned_patterns[key] < MaxConfidence
    /\ \E entities \in entity_choices(spam_filtered[spam_id].content_preview) :
          LET patterns ==
                [trigram |-> meaningful_trigrams(
                                spam_filtered[spam_id].content_preview),
                 named_entity |-> entities]
          IN  lcall' = [op |-> "learn_from_false_positive", spam_id |-> spam_id,
                        should_forward |-> should_forward, pc |-> "adding",
                        patterns |-> patterns, todo |-> PatternPairs(patterns),
                        result |-> "none"]
    /\ UNCHANGED <<learned_patterns, spam_recovered, notRecover>>

\* if not spam_msg: return {'error': 'Spam message not found'}
RecoverNotFound(spam_id, should_forward) ==
    /\ ~Recovering
    /\ spam_id \notin 1..Len(spam_filtered)
    /\ lcall' = [op |-> "learn_from_false_positive", spam_id |-> spam_id,
                 should_forward |-> should_forward, pc |-> "done",
                 patterns |-> [trigram |-> <<>>, named_entity |-> {}],
                 todo |-> <<>>, result |-> "error"]
    /\ UNCHANGED <<learned_patterns, spam_recovered, notRecover>>

\* One round of the loop: add_learned_pattern(pattern_type, pattern_value,
\* 'whitelist') on its own connection, committed when it returns.
RecoverAdd ==
    /\ Recovering
    /\ lcall.todo # <<>>
    /\ learned_patterns' = add_learned_pattern(learned_patterns, Head(lcall.todo)[1],
                                              Head(lcall.todo)[2], "whitelist")
    /\ lcall' = [lcall EXCEPT !.todo = Tail(@)]
    /\ UNCHANGED <<spam_recovered, notRecover>>

\* add_learned_pattern raising (the database locked past the timeout, an
\* I/O error): learn_from_false_positive has no except clause, so the
\* exception leaves it; the rounds before stay committed.
RecoverAddRaises ==
    /\ Recovering
    /\ lcall.todo # <<>>
    /\ lcall' = [lcall EXCEPT !.pc = "done", !.result = "raised"]
    /\ UNCHANGED <<learned_patterns, spam_recovered, notRecover>>

\* INSERT INTO spam_recovered ...; conn.commit(); return {'success': True}.
RecoverRecord ==
    /\ Recovering
    /\ lcall.todo = <<>>
    /\ spam_recovered' = Append(spam_recovered,
          [spam_id |-> lcall.spam_id, forwarded |-> lcall.should_forward,
           learned_patterns_json |-> lcall.patterns])
    /\ lcall' = [lcall EXCEPT !.pc = "done", !.result = "success"]
    /\ UNCHANGED <<learned_patterns, notRecover>>

\* The INSERT or the commit raising: no row in spam_recovered.
RecoverRecordRaises ==
    /\ Recovering
    /\ lcall.todo = <<>>
    /\ lcall' = [lcall EXCEPT !.pc = "done", !.result = "raised"]
    /\ UNCHANGED <<learned_patterns, spam_recovered, notRecover>>

RecoverInit ==
    /\ learned_patterns = EmptyTable
    /\ spam_recovered = <<>>
    /\ lcall = NoLearnerCall
    /\ verdict = [called |-> FALSE]
    /\ StoreIdle
    /\ DeliverIdle
    /\ ComposeIdle
    /\ SeenIdle
    /\ HandleIdle

RecoverNext ==
    \/ \E spam_id \in SpamIds, should_forward \in BOOLEAN :
          \/ RecoverStart(spam_id, should_forward)
          \/ RecoverNotFound(spam_id, should_forward)
    \/ RecoverAdd
    \/ RecoverAddRaises
    \/ RecoverRecord
    \/ RecoverRecordRaises

SpecRecover == RecoverInit /\ [][RecoverNext]_vars

(***************************************************************************)
(* SpecCompose: create_message on a header, a translation and a link.      *)
(***************************************************************************)
TextLens == {0, 1, 300, 3700, 3873, 10000}
Chars == {"x", "&", "'"}

\* chat.title or chat.username: a short name, and a title of 128 characters
\* with ampersands.
NameChoices == {Run("x", 10), Run("x", 100) \o Run("&", 28)}
\* t.me/<username or c/id>/<message_id>
LinkChoices == {Run("x", 14), Run("x", 40)}
TranslationChoices ==
    {Run(c1, n1) \o Run(c2, n2) : c1 \in Chars, c2 \in Chars,
                                  n1 \in TextLens, n2 \in TextLens}

\* message = create_message(chat_name, untranslated_msg, content, link), as
\* handle_message calls it in its media branch and in its text branch; `file`
\* tells that the message is then sent with file=event.message.media.
CreateMessage ==
    /\ ~composed.called
    /\ composed' = [composed EXCEPT
          !.called = TRUE,
          !.file = sent_with_file(composed.media),
          !.message = create_message(composed.chat_name, composed.untranslated_msg,
                                     composed.translation, composed.link)]
    /\ UNCHANGED notCompose

ComposeInit ==
    /\ \E chat_name \in NameChoices, link \in LinkChoices,
          translation \in TranslationChoices,
          media \in MediaKinds \ {"webpage"} :
          composed = [chat_name |-> chat_name, untranslated_msg |-> <<>>,
                      translation |-> translation, link |-> link,
                      media |-> media, file |-> FALSE,
                      called |-> FALSE, message |-> <<>>]
    /\ StoreIdle
    /\ DeliverIdle
    /\ ClassifyIdle
    /\ HandleIdle
    /\ SeenIdle

ComposeNext == CreateMessage

SpecCompose == ComposeInit /\ [][ComposeNext]_vars

(***************************************************************************)
(* SpecHandle: events arrive, each in a task of its own, and the tasks     *)
(* interleave at their awaits.                                             *)
(***************************************************************************)

\* A NewMessage event arrives: the client starts handle_message, which
\* awaits event.get_chat().  Two events with one key carry one message.
Arrive(t) ==
    /\ tasks[t].pc = "idle"
    /\ \E k \in Keys, text \in HandlerTexts, media \in MediaKinds :
          /\ \A u \in Tasks : tasks[u].pc # "idle" /\ tasks[u].key = k
                => tasks[u].text = text /\ tasks[u].media = media
          /\ tasks' = [tasks EXCEPT ![t] =
                [IdleTask EXCEPT !.pc = "get_chat", !.key = k, !.text = text,
                                 !.media = media,
                                 !.overlap = {u \in Tasks : Running(tasks[u])
                                                            /\ tasks[u].key = k}]]
    /\ UNCHANGED <<messages, notHandle>>

\* event.get_chat() raises: one of the except clauses logs it.
GetChatRaises(t) ==
    /\ tasks[t].pc = "get_chat"
    /\ tasks' = [tasks EXCEPT ![t] = Fail(@, "get_chat")]
    /\ UNCHANGED <<messages, notHandle>>

\* event.get_chat() returns and is_message_seen raises: `except Exception`.
IsMessageSeenRaises(t) ==
    /\ tasks[t].pc = "get_chat"
    /\ tasks' = [tasks EXCEPT ![t] = Fail(@, "is_message_seen")]
    /\ UNCHANGED <<messages, notHandle>>

\* A handler without the duplicate check.
GetChatReturnsUnchecked(t) ==
    /\ tasks[t].pc = "get_chat"
    /\ \E fault \in StoreFaults :
          LET task == tasks[t]
              next ==
                IF task.media = "webpage"
                THEN [task |-> Finish(task, "unsupported"), table |-> messages]
                ELSE IF task.text # <<>>
                THEN [task |-> [task EXCEPT !.pc = "translate"], table |-> messages]
                ELSE AfterTranslate(task, "", messages, fault)
          IN  /\ tasks' = [tasks EXCEPT ![t] = next.task]
              /\ messages' = next.table
    /\ UNCHANGED notHandle

\* event.get_chat() returns: the duplicate check, the media check, and on
\* to translate_async, or past it when the text is empty.
GetChatReturns(t) ==
    /\ tasks[t].pc = "get_chat"
    /\ \E fault \in StoreFaults :
          LET task == tasks[t]
              next ==
                IF is_message_seen(messages, task.key[1], task.key[2])
                THEN [task |-> Finish(task, "duplicate"), table |-> messages]
                ELSE IF task.media = "webpage"
                THEN [task |-> Finish(task, "unsupported"), table |-> messages]
                ELSE IF task.text # <<>>
                THEN [task |-> [task EXCEPT !.pc = "translate"], table |-> messages]
                ELSE AfterTranslate(task, "", messages, fault)
          IN  /\ tasks' = [tasks EXCEPT ![t] = next.task]
              /\ messages' = next.table
    /\ UNCHANGED notHandle

\* A translate_async without its except clauses: what the translator raises
\* reaches handle_message, which logs it.
TranslateReturnsOrRaises(t) ==
    /\ tasks[t].pc = "translate"
    /\ \E outcome \in TranslateOutcomes, fault \in StoreFaults :
          LET next == IF outcome = "ok"
                      THEN AfterTranslate(tasks[t], translate_async(outcome),
                                          messages, fault)
                      ELSE [task |-> Fail(tasks[t], "translate_async"),
                            table |-> messages]
          IN  /\ tasks' = [tasks EXCEPT ![t] = next.task]
              /\ messages' = next.table
    /\ UNCHANGED notHandle

\* translate_async returns a translation or a placeholder.
TranslateReturns(t) ==
    /\ tasks[t].pc = "translate"
    /\ \E outcome \in TranslateOutcomes, fault \in StoreFaults :
          LET next == AfterTranslate(tasks[t], translate_async(outcome), messages, fault)
          IN  /\ tasks' = [tasks EXCEPT ![t] = next.task]
              /\ messages' = next.table
    /\ UNCHANGED notHandle

\* A handler that logs the exception of send_with_retry and goes on with
\* the next channel and with store_message.
SendReturnsPastFailure(t) ==
    /\ tasks[t].pc = "send"
    /\ \E outcome \in HandlerSendOutcomes, fault \in StoreFaults :
          LET task == tasks[t]
              r == send_attempt(task.attempt, outcome)
              sent == [task EXCEPT !.delivered = @ \cup {Head(task.dests)},
                                   !.dests = Tail(@), !.attempt = 0]
              skipped == [task EXCEPT !.dests = Tail(@), !.attempt = 0,
                                      !.error = "send_with_retry"]
              next ==
                CASE r.next = "return" ->
                       IF sent.dests = <<>>
                       THEN StoreAndFinish(sent, messages, fault)
                       ELSE [task |-> sent, table |-> messages]
                  [] r.next = "raise" ->
                       IF skipped.dests = <<>>
                       THEN StoreAndFinish(skipped, messages, fault)
                       ELSE [task |-> skipped, table |-> messages]
                  [] OTHER ->
                       [task |-> [task EXCEPT !.pc = "sleep"], table |-> messages]
          IN  /\ tasks' = [tasks EXCEPT ![t] = next.task]
              /\ messages' = next.table
    /\ UNCHANGED notHandle

\* client.send_message returns or raises inside send_with_retry: the next
\* channel, store_message after the last one, a sleep, or the exception of
\* the last attempt, which handle_message logs.
SendReturns(t) ==
    /\ tasks[t].pc = "send"
    /\ \E outcome \in HandlerSendOutcomes, fault \in StoreFaults :
          LET task == tasks[t]
              r == send_attempt(task.attempt, outcome)
              sent == [task EXCEPT !.delivered = @ \cup {Head(task.dests)},
                                   !.dests = Tail(@), !.attempt = 0]
              next ==
                CASE r.next = "return" ->
                       IF sent.dests = <<>>
                       THEN StoreAndFinish(sent, messages, fault)
                       ELSE [task |-> sent, table |-> messages]
                  [] r.next = "raise" ->
                       [task |-> Fail(task, "send_with_retry"), table |-> messages]
                  [] OTHER ->
                       [task |-> [task EXCEPT !.pc = "sleep"], table |-> messages]
          IN  /\ tasks' = [tasks EXCEPT ![t] = next.task]
              /\ messages' = next.table
    /\ UNCHANGED notHandle

\* asyncio.sleep is over: the next attempt.
\* A retry loop that starts the same attempt again after its sleep.
WakeSameAttempt(t) ==
    /\ tasks[t].pc = "sleep"
    /\ loop_continues(tasks[t].attempt)
    /\ tasks' = [tasks EXCEPT ![t].pc = "send"]
    /\ UNCHANGED <<messages, notHandle>>

Wake(t) ==
    /\ tasks[t].pc = "sleep"
    /\ loop_continues(tasks[t].attempt)
    /\ tasks' = [tasks EXCEPT ![t].pc = "send", ![t].attempt = @ + 1]
    /\ UNCHANGED <<messages, notHandle>>

HandleInit ==
    /\ tasks = [t \in Tasks |-> IdleTask]
    /\ messages = init_database
    /\ dbLock = {}
    /\ callers = <<>>
    /\ DeliverIdle
    /\ ClassifyIdle
    /\ ComposeIdle
    /\ SeenIdle

HandleNext ==
    \E t \in Tasks :
        \/ Arrive(t)
        \/ GetChatRaises(t)
        \/ IsMessageSeenRaises(t)
        \/ GetChatReturns(t)
        \/ TranslateReturns(t)
        \/ SendReturns(t)
        \/ Wake(t)

SpecHandle == HandleInit /\ [][HandleNext]_vars

\* What a handler that has arrived does next: every await of a handler
\* returns or raises.
HandleStep(t) ==
    \/ GetChatRaises(t)
    \/ IsMessageSeenRaises(t)
    \/ GetChatReturns(t)
    \/ TranslateReturns(t)
    \/ SendReturns(t)
    \/ Wake(t)

\* One invocation of handle_message with calls that return: the event loop
\* resumes a task whose await is over, so the handler does not wait for
\* ever at get_chat, translate_async, send_message or sleep.
HandlerAlone == CHOOSE t \in Tasks : TRUE

HandleLiveNext == Arrive(HandlerAlone) \/ HandleStep(HandlerAlone)

SpecHandleLive ==
    /\ HandleInit
    /\ [][HandleLiveNext]_vars
    /\ WF_vars(HandleStep(HandlerAlone))

(***************************************************************************)
(* Properties of store_message (SpecStore).                                *)
(***************************************************************************)

\* The calls of store_message for the key k that ran to the end of their
\* commit.
Committed(k) ==
    {c \in Callers : /\ callers[c].pc = "done"
                     /\ KeyOf(callers[c].row) = k
                     /\ callers[c].result \in {"inserted", "ignored"}}

Inserted(k) == {c \in Committed(k) : callers[c].result = "inserted"}

\* C1: for every (channel_id, message_id), once a call of store_message for
\* the key has succeeded the table holds exactly one row for the key,
\* is_message_seen is true for it, and the row is the one the first call
\* wrote: every call that changed the table wrote exactly the content, link
\* and date the table holds, so a later call with the same key changed
\* nothing.
C1_StoreIdempotent ==
    \A k \in Keys :
        Committed(k) # {} =>
            /\ is_message_seen(messages, k[1], k[2])
            /\ Cardinality(RowsOf(messages, k)) = 1
            /\ \A c \in Inserted(k) :
                  \A i \in RowsOf(messages, k) : messages[i] = callers[c].row

\* A call with the same key and other content, begun after the first call's
\* row was in the table, has been ignored and the first row is kept.
C1_Witness ==
    \E c, d \in Callers :
        /\ c # d
        /\ callers[c].pc = "done" /\ callers[c].result = "inserted"
        /\ callers[d].pc = "done" /\ callers[d].result = "ignored"
        /\ KeyOf(callers[c].row) = KeyOf(callers[d].row)
        /\ callers[c].row # callers[d].row
        /\ \E i \in RowsOf(messages, KeyOf(callers[c].row)) :
              /\ messages[i] = callers[c].row
              /\ callers[d].t0 >= i

\* C3: when several calls of store_message for one key run at once, in every
\* interleaving the table ends with exactly one row for the key, exactly one
\* of the calls inserted it, and every other call that reached its commit
\* was ignored without an error; the only exclusion between them is the
\* database's own write lock.
C3_RaceOneRow ==
    \A k \in Keys :
        /\ Cardinality(RowsOf(messages, k)) <= 1
        /\ Committed(k) # {} =>
              /\ Cardinality(RowsOf(messages, k)) = 1
              /\ Cardinality(Inserted(k)) = 1
              /\ \A c \in Committed(k) \ Inserted(k) : callers[c].result = "ignored"

\* Two calls for one key were both under way before either row was in the
\* table; one inserted, the other was ignored.
C3_Witness ==
    \E c, d \in Callers :
        /\ c # d
        /\ callers[c].pc = "done" /\ callers[c].result = "inserted"
        /\ callers[d].pc = "done" /\ callers[d].result = "ignored"
        /\ KeyOf(callers[c].row) = KeyOf(callers[d].row)
        /\ \A i \in RowsOf(messages, KeyOf(callers[c].row)) :
              callers[c].t0 < i /\ callers[d].t0 < i

(***************************************************************************)
(* Properties of send_with_retry (SpecDeliver).                            *)
(***************************************************************************)

\* The positions of the calls of client.send_message in the trace.
Sends == {i \in 1..Len(dcall.trace) : dcall.trace[i][1] = "send"}
OkSends == {i \in Sends : dcall.trace[i][2] = Ok}
Finished == dcall.pc \in {"returned", "raised"}

\* C4: one call of send_with_retry calls client.send_message at most
\* max_retries = 3 times whatever the transport does, and when every send
\* fails it calls it exactly 3 times and then raises.
C4_RetryBound ==
    /\ Cardinality(Sends) <= max_retries
    /\ (Finished /\ OkSends = {}) =>
          dcall.pc = "raised" /\ Cardinality(Sends) = max_retries

\* Every send failed: three calls, then the exception.
C4_Witness ==
    /\ dcall.pc = "raised"
    /\ Cardinality(Sends) = max_retries
    /\ OkSends = {}

\* C5: send_with_retry returns only after a send that succeeded, returns
\* True then, and sends nothing after the first success; when it ends
\* without a success it raises the exception of its last attempt, so it
\* never returns normally without a successful send.
C5_OkOnlyAfterSuccess ==
    /\ \A i \in OkSends : i = Len(dcall.trace)
    /\ dcall.pc = "returned" =>
          dcall.value = "True" /\ OkSends = {Len(dcall.trace)}
    /\ (Finished /\ OkSends = {}) =>
          /\ dcall.pc = "raised"
          /\ dcall.trace[Len(dcall.trace)][1] = "send"
          /\ dcall.exc = dcall.trace[Len(dcall.trace)][2]

\* The whole budget failed and the exception raised is the last attempt's,
\* which differs from the first attempt's.
C5_Witness ==
    /\ dcall.pc = "raised"
    /\ OkSends = {}
    /\ dcall.exc = dcall.trace[Len(dcall.trace)][2]
    /\ dcall.exc # dcall.trace[1][2]

(***************************************************************************)
(* Properties of is_spam (SpecClassify).                                   *)
(***************************************************************************)

\* The words of pattern_value stand in the text, next to one another.
Contains(text, pattern_value) ==
    \E i \in 1..(Len(text) - Len(pattern_value) + 1) :
        SubSeq(text, i, i + Len(pattern_value) - 1) = pattern_value

\* The whitelist patterns of the table whose confidence has reached the
\* threshold of their type.
Trusted(table) ==
    {key \in DOMAIN table :
        /\ key[3] = "whitelist"
        /\ \/ key[1] = "named_entity" /\ table[key] >= entity_threshold
           \/ key[1] = "trigram" /\ table[key] >= trigram_threshold}

\* C6: once a whitelist pattern's confidence has reached its threshold
\* (entity >= 2, trigram >= 3), is_spam called with a channel id, its lookup
\* not failing, returns not-spam for every text that contains the pattern,
\* whatever financial or off-topic rule the text also matches.
C6_WhitelistPrecedence ==
    [][ (Classify /\ verdict.channel_id # None /\ ~verdict'.lookup_raises)
          => \A key \in Trusted(learned_patterns) :
                Contains(verdict.text, key[2]) => ~verdict'.spam ]_vars

\* Financial or fundraising content: a card number or a donation keyword.
HasDonationOrCard(text) ==
    \/ Matching(CARD_NUMBER_PATTERNS, text) # <<>>
    \/ Matching(DONATION_KEYWORDS, text) # <<>>

\* C7: a text with both a military-unit or equipment keyword and a donation
\* keyword or card number is classified not-spam by is_spam, whatever else
\* the text contains.
C7_MilitaryOverride ==
    verdict.called =>
        ((/\ Matching(MILITARY_UNIT_KEYWORDS, verdict.text) # <<>>
          /\ HasDonationOrCard(verdict.text))
            => ~verdict.spam)

(***************************************************************************)
(* Properties of create_message (SpecCompose).                             *)
(***************************************************************************)

\* The runs of piece stand in the message, next to one another.
HasPiece(message, piece) ==
    \E i \in 1..(Len(message) - Len(piece) + 1) :
        SubSeq(message, i, i + Len(piece) - 1) = piece

\* C8: for every chat name, every link and every translation, of any length
\* and with any characters, the message create_message returns is at most
\* 3980 characters long and holds the escaped chat name and the escaped link
\* in full.
C8_LengthWithinLimit ==
    composed.called =>
        /\ StrLen(composed.message) <= message_limit
        /\ HasPiece(composed.message, html_escape(composed.chat_name))
        /\ HasPiece(composed.message, html_escape(composed.link))

(***************************************************************************)
(* Properties of handle_message (SpecHandle).                              *)
(***************************************************************************)

\* The tasks t and u ran at the same time on the same message.
Concurrent(t, u) ==
    /\ t # u
    /\ tasks[t].pc # "idle" /\ tasks[u].pc # "idle"
    /\ tasks[t].key = tasks[u].key
    /\ u \in tasks[t].overlap \/ t \in tasks[u].overlap

\* C2: when two tasks of handle_message run at the same time on the same
\* (channel_id, message_id), in every interleaving no channel is sent the
\* message by both of them, and the table holds at most one row for the key.
C2_NoDoubleDelivery ==
    /\ \A t, u \in Tasks :
          Concurrent(t, u) => tasks[t].delivered \cap tasks[u].delivered = {}
    /\ \A k \in Keys : Cardinality(RowsOf(messages, k)) <= 1

\* The handler found the message unseen at its duplicate check and has
\* returned.
HandledUnseen(t) ==
    /\ tasks[t].pc = "done"
    /\ \/ tasks[t].result \in {"unsupported", "completed"}
       \/ tasks[t].error \in {"send_with_retry", "store_message"}

AllChannels(task) ==
    {destinations(task.media)[i] : i \in 1..Len(destinations(task.media))}

C10_SpamNotDelivered ==
    \A t \in Tasks :
        (/\ tasks[t].pc # "idle"
         /\ is_spam(tasks[t].text, <<tasks[t].key[1]>>, learned_patterns, FALSE).spam)
            => /\ tasks[t].pc \notin {"translate", "send", "sleep"}
               /\ tasks[t].delivered = {}

\* Some step of the task t can be taken.
CanStep(t) ==
    ENABLED (\/ Arrive(t) \/ GetChatRaises(t) \/ GetChatReturns(t)
             \/ TranslateReturns(t) \/ SendReturns(t) \/ Wake(t))

\* C11: handle_message never lets an exception out, whichever call raised
\* (get_chat, is_message_seen, send_with_retry after its last attempt,
\* store_message): it ends as a duplicate, as unsupported, completed, or
\* failed with the exception logged; and whatever has become of the other
\* tasks, a task that has not returned can take its next step and an event
\* that has not arrived can arrive.
C11_FailuresIsolated ==
    \A t \in Tasks :
        /\ tasks[t].pc = "done" =>
              /\ tasks[t].result \in {"duplicate", "unsupported", "completed", "failed"}
              /\ tasks[t].result = "failed" <=> tasks[t].error # "none"
        /\ tasks[t].pc # "done" => CanStep(t)

\* A handler failed at send_with_retry; the same message arrived again
\* afterwards and was sent and stored.
C11_Witness ==
    \E t, u \in Tasks :
        /\ t # u
        /\ tasks[t].pc = "done" /\ tasks[t].error = "send_with_retry"
        /\ tasks[u].pc = "done" /\ tasks[u].result = "completed"
        /\ tasks[u].key = tasks[t].key
        /\ t \notin tasks[u].overlap /\ u \notin tasks[t].overlap
        /\ tasks[u].delivered # {}
        /\ tasks[u].stores = <<"inserted">>

(***************************************************************************)
(* The sleeps of send_with_retry (SpecDeliver).                            *)
(***************************************************************************)

\* The sends before position i of the trace, and those of them that failed
\* with an exception other than FloodWaitError.
SendsBefore(i) == {j \in Sends : j < i}
OrdinaryBefore(i) == {j \in SendsBefore(i) : dcall.trace[j][2].kind = "error"}
FloodsBefore(i) == {j \in SendsBefore(i) : dcall.trace[j][2].kind = "flood"}

\* The send at position i was followed by a sleep.
SleptAfter(i) == i < Len(dcall.trace) /\ dcall.trace[i + 1][1] = "sleep"

\* C12: the backoff slept after an ordinary failure depends only on the
\* number of ordinary failures before it, 1 after the first and 2 after the
\* second, however many FloodWaitErrors came before.
C12_FloodNotCounted ==
    \A i \in Sends :
        (dcall.trace[i][2].kind = "error" /\ SleptAfter(i))
            => dcall.trace[i + 1][2] = 2 ^ Cardinality(OrdinaryBefore(i))

\* C13: after a send that is not the last of the budget raised
\* FloodWaitError with e.seconds = w, send_with_retry sleeps exactly
\* min(w, 60) and then sends again; no such sleep is longer than 60.
C13_FloodWaitCapped ==
    \A i \in Sends :
        dcall.trace[i][2].kind = "flood" =>
            /\ Cardinality(SendsBefore(i)) + 1 < max_retries =>
                  /\ SleptAfter(i)
                  /\ dcall.trace[i + 1][2] = Min(dcall.trace[i][2].seconds, 60)
                  /\ dcall.trace[i + 1][2] <= 60
                  /\ \/ dcall.pc \in {"sleep", "send"} /\ Len(dcall.trace) = i + 1
                     \/ i + 2 \in Sends
            /\ Cardinality(SendsBefore(i)) + 1 = max_retries => ~SleptAfter(i)

\* A wait of 300 was slept as 60, and the next send followed.
C13_Witness ==
    \E i \in Sends :
        /\ dcall.trace[i][2] = FloodWaitError(300)
        /\ SleptAfter(i)
        /\ dcall.trace[i + 1][2] = 60
        /\ i + 2 \in Sends

\* C14: after the attempt with index k failed with an ordinary exception and
\* was not the last, send_with_retry sleeps exactly 2^k before the next
\* attempt; a call whose every attempt fails so sleeps 1, then 2, and raises
\* after the third attempt without sleeping.
C14_ExponentialBackoff ==
    /\ \A i \in Sends :
          dcall.trace[i][2].kind = "error" =>
              IF Cardinality(SendsBefore(i)) + 1 < max_retries
              THEN /\ SleptAfter(i)
                   /\ dcall.trace[i + 1][2] = 2 ^ Cardinality(SendsBefore(i))
              ELSE ~SleptAfter(i)
    /\ (dcall.pc = "raised" /\ FloodsBefore(Len(dcall.trace) + 1) = {}) =>
          /\ Len(dcall.trace) = 5
          /\ dcall.trace[2] = <<"sleep", 1>>
          /\ dcall.trace[4] = <<"sleep", 2>>
          /\ dcall.trace[5][1] = "send"

\* Three ordinary failures: the sleeps were 1 and 2, and the third failure
\* was raised.
C14_Witness ==
    /\ dcall.pc = "raised"
    /\ Cardinality(OrdinaryBefore(Len(dcall.trace) + 1)) = max_retries
    /\ dcall.trace[2] = <<"sleep", 1>>
    /\ dcall.trace[4] = <<"sleep", 2>>

\* C15: a permanent error of client.send_message (the destination invalid or
\* forbidden) is raised to the caller after that one attempt, with no sleep
\* and no further send.
C15_PermanentShortCircuits ==
    \A i \in Sends :
        dcall.trace[i][2] = SendError(TRUE) =>
            /\ i = 1
            /\ Len(dcall.trace) = 1
            /\ dcall.pc = "raised"

(***************************************************************************)
(* Thresholds, heuristics and failures of is_spam (SpecClassify).          *)
(***************************************************************************)

\* The elements of a sequence.
Range(seq) == {seq[i] : i \in 1..Len(seq)}

\* What the heuristics alone answer: financial spam first, then off-topic.
Heuristics(text) ==
    IF is_financial_spam(text).spam
    THEN [spam |-> TRUE, reason |-> <<"Financial spam">> \o is_financial_spam(text).reason]
    ELSE IF is_off_topic(text).spam
    THEN [spam |-> TRUE, reason |-> <<"Off-topic">> \o is_off_topic(text).reason]
    ELSE NotSpam

\* The number of recoveries that named the pattern.
TimesLearned(pattern_type, pattern_value) ==
    Cardinality({i \in 1..Len(spam_recovered) :
        IF pattern_type = "trigram"
        THEN pattern_value \in Range(spam_recovered[i].learned_patterns_json.trigram)
        ELSE pattern_value \in spam_recovered[i].learned_patterns_json.named_entity})

\* Every named entity and every trigram of the text is stored, if at all,
\* with a confidence below the threshold of its type.
AllBelowThreshold(text, table) ==
    /\ \A e \in Range(named_entities(text)) :
          Confidence(table, <<"named_entity", e, "whitelist">>) < entity_threshold
    /\ \A t \in Range(extract_ngrams(text, 3)) :
          Confidence(table, <<"trigram", t, "whitelist">>) < trigram_threshold

\* C16: check_learned_patterns reports no match on the strength of a pattern
\* stored with a confidence below its threshold (entity 2, trigram 3): a
\* text whose entities and trigrams are all below threshold gets the verdict
\* of the heuristics; and every pattern learned stays stored, with the
\* number of times it was learned as its confidence, however small.
C16_DormantBelowThreshold ==
    /\ (verdict.called /\ AllBelowThreshold(verdict.text, learned_patterns)) =>
          /\ ~check_learned_patterns(verdict.text, learned_patterns).match
          /\ verdict.spam = Heuristics(verdict.text).spam
          /\ verdict.reason = Heuristics(verdict.text).reason
    /\ \A key \in DOMAIN learned_patterns :
          learned_patterns[key] = TimesLearned(key[1], key[2])
    /\ \A i \in 1..Len(spam_recovered) :
          /\ \A e \in spam_recovered[i].learned_patterns_json.named_entity :
                <<"named_entity", e, "whitelist">> \in DOMAIN learned_patterns
          /\ \A t \in Range(spam_recovered[i].learned_patterns_json.trigram) :
                <<"trigram", t, "whitelist">> \in DOMAIN learned_patterns

\* The entity Azov is stored with confidence 1; a text with that entity and a
\* card number was looked up, not whitelisted, and is financial spam.
C16_Witness ==
    /\ verdict.called /\ verdict.channel_id # None /\ ~verdict.lookup_raises
    /\ verdict.text = <<"Azov", "donate", "5168752144288613">>
    /\ Confidence(learned_patterns, <<"named_entity", <<"Azov">>, "whitelist">>) = 1
    /\ verdict.spam
    /\ verdict.reason[1] = "Financial spam"

\* is_spam looked the text up in the learned patterns and found a match.
Whitelisted ==
    /\ verdict.channel_id # None
    /\ ~verdict.lookup_raises
    /\ check_learned_patterns(verdict.text, learned_patterns).match

\* C17: for a text with no learned-pattern match, no military keyword, no
\* card number and no payment domain, is_spam returns financial spam exactly
\* when at least two distinct donation keywords match the text; one donation
\* keyword alone is not financial spam.
C17_TwoDistinctDonationKeywords ==
    (/\ verdict.called
     /\ ~Whitelisted
     /\ Matching(MILITARY_UNIT_KEYWORDS, verdict.text) = <<>>
     /\ Matching(CARD_NUMBER_PATTERNS, verdict.text) = <<>>
     /\ Matching(PAYMENT_DOMAINS, verdict.text) = <<>>)
        => ((verdict.spam /\ verdict.reason[1] = "Financial spam")
              <=> Cardinality(Range(Matching(DONATION_KEYWORDS, verdict.text))) >= 2)

C20_LookupFailureFallsThrough ==
    (verdict.called /\ verdict.lookup_raises) =>
        /\ verdict.channel_id # None
        /\ verdict.spam = Heuristics(verdict.text).spam
        /\ verdict.reason = Heuristics(verdict.text).reason

\* The lookup raised on a text that a learned pattern would have
\* whitelisted: the text is financial spam.
C20_Witness ==
    /\ verdict.called /\ verdict.lookup_raises
    /\ check_learned_patterns(verdict.text, learned_patterns).match
    /\ verdict.spam
    /\ verdict.reason[1] = "Financial spam"

(***************************************************************************)
(* Properties of the learned patterns (SpecLearn).                         *)
(***************************************************************************)
\* How often x occurs in seq.
Occurrences(seq, x) == Cardinality({i \in 1..Len(seq) : seq[i] = x})

\* A whitelist pattern the lookup acts on: its confidence has reached the
\* threshold of its type.
Actionable(table, key) ==
    /\ key \in DOMAIN table
    /\ key[3] = "whitelist"
    /\ \/ key[1] = "named_entity" /\ table[key] >= entity_threshold
       \/ key[1] = "trigram" /\ table[key] >= trigram_threshold

C22_ConfidenceNeverDecreases ==
    [][/\ \A k \in DOMAIN learned_patterns' : learned_patterns'[k] >= 1
       /\ (~ \E key \in DOMAIN learned_patterns \cup AddArgs :
                DeleteLearnedPattern(key)) =>
             \A k \in DOMAIN learned_patterns :
                /\ k \in DOMAIN learned_patterns'
                /\ learned_patterns'[k] >= learned_patterns[k]
                /\ Actionable(learned_patterns, k) =>
                      Actionable(learned_patterns', k)]_vars

\* A lookup has matched, and is_spam has been called, on a table with a
\* pattern above its threshold.
C22_Witness ==
    /\ lcall.op = "check_learned_patterns"
    /\ lcall.returned.match
    /\ verdict.called
    /\ \E k \in DOMAIN learned_patterns :
          Actionable(learned_patterns, k) /\ learned_patterns[k] > trigram_threshold

\* C23: a successful learn_from_false_positive(spam_id, should_forward)
\* appends exactly one row to spam_recovered, with that spam_id, the flag it
\* was given and the patterns extracted from the row's preview, and it
\* learns each extracted pattern as a whitelist pattern once: the
\* confidence of each rises by the number of times it was extracted, and no
\* other row changes.
C23_RecoveryRecorded ==
    [][\A spam_id \in SpamIds, should_forward \in BOOLEAN :
          Learn(spam_id, should_forward) =>
              LET content == spam_filtered[spam_id].content_preview
                  row == spam_recovered'[Len(spam_recovered')]
                  patterns == row.learned_patterns_json
                  times(k) ==
                      IF k[3] # "whitelist" THEN 0
                      ELSE IF k[1] = "trigram"
                           THEN Occurrences(patterns.trigram, k[2])
                      ELSE IF k[1] = "named_entity" /\ k[2] \in patterns.named_entity
                           THEN 1
                      ELSE 0
                  extracted ==
                      {<<"trigram", patterns.trigram[i], "whitelist">> :
                          i \in 1..Len(patterns.trigram)}
                      \cup {<<"named_entity", e, "whitelist">> : e \in patterns.named_entity}
              IN  /\ spam_recovered' = Append(spam_recovered, row)
                  /\ row.spam_id = spam_id
                  /\ row.forwarded = should_forward
                  /\ patterns.trigram = meaningful_trigrams(content)
                  /\ patterns.named_entity \in entity_choices(content)
                  /\ DOMAIN learned_patterns' = DOMAIN learned_patterns \cup extracted
                  /\ \A k \in DOMAIN learned_patterns' :
                        learned_patterns'[k] = Confidence(learned_patterns, k) + times(k)]_vars

\* A review was asked to forward, and raised a pattern that was there.
C23_Witness ==
    /\ lcall.op = "learn_from_false_positive"
    /\ lcall.result = "success"
    /\ lcall.should_forward
    /\ Len(spam_recovered) = 1
    /\ spam_recovered[1].forwarded
    /\ \E e \in spam_recovered[1].learned_patterns_json.named_entity :
          Confidence(learned_patterns, <<"named_entity", e, "whitelist">>) >= 2

\* C24: if a pattern that extract_patterns_from_message finds in a content
\* is stored as a whitelist pattern with a confidence at its threshold, then
\* check_learned_patterns matches that content.
C24_LookupFindsExtracted ==
    lcall.op = "check_learned_patterns" =>
        LET extracted ==
                {<<"trigram", meaningful_trigrams(lcall.content)[i], "whitelist">> :
                    i \in 1..Len(meaningful_trigrams(lcall.content))}
                \cup {<<"named_entity", e, "whitelist">> :
                        e \in filtered_entities(lcall.content)}
        IN  (\E k \in extracted : Actionable(learned_patterns, k)) =>
                lcall.returned.match

(***************************************************************************)
(* The limits of create_message (SpecCompose).                             *)
(***************************************************************************)
\* C25: a message that is sent with a media attachment is at most 1024
\* characters long; only a message sent as text may be up to 3980.
C25_AttachmentLimit ==
    (composed.called /\ composed.file) =>
        StrLen(composed.message) <= attachment_limit

\* C26: when the full message is longer than the limit, the message
\* returned is the scaffold around the first (limit - overhead - 3)
\* characters of the translation and "...", where the overhead is the length
\* of the scaffold for this chat name and this link.  Stated for the
\* messages sent as text, whose limit is 3980.
C26_BudgetedTruncation ==
    LET full == IF composed.translation # <<>>
                THEN translated_form(composed.chat_name, composed.translation,
                                     composed.link)
                ELSE untranslated_form(composed.chat_name, composed.link)
        overhead == StrLen(translated_form(composed.chat_name, <<>>, composed.link))
        budget == message_limit - overhead - StrLen(Lit("..."))
    IN  (composed.called /\ ~composed.file /\ StrLen(full) > message_limit) =>
            composed.message =
                translated_form(composed.chat_name,
                                Take(composed.translation, budget) \o Lit("..."),
                                composed.link)

(***************************************************************************)
(* Failures of the translator and of the store (SpecHandle).               *)
(***************************************************************************)
Placeholders == {translate_async(o) : o \in TranslateOutcomes \ {"ok"}}

\* C27: translate_async raises nothing.  Each failure of the translator
\* gives a placeholder of its own, and with a placeholder the handler does
\* what it does with a translation: the same sends, the same call of
\* store_message, the same end.
C27_TranslationFailureDegrades ==
    [][\A t \in Tasks :
          TranslateReturns(t) =>
              /\ \A o1, o2 \in TranslateOutcomes :
                    o1 # o2 => translate_async(o1) # translate_async(o2)
              /\ tasks'[t].content \in Placeholders \cup {translate_async("ok")}
              /\ tasks'[t].error # "translate_async"
              /\ \E fault \in StoreFaults :
                    LET ok == AfterTranslate(tasks[t], translate_async("ok"),
                                             messages, fault)
                    IN  /\ [tasks'[t] EXCEPT !.content = translate_async("ok")] = ok.task
                        /\ messages' = ok.table]_vars

\* A photo whose translation hit the quota was sent to both channels with
\* the placeholder and stored.
C27_Witness ==
    \E t \in Tasks :
        /\ tasks[t].pc = "done" /\ tasks[t].result = "completed"
        /\ tasks[t].content = "[Translation unavailable: quota exceeded]"
        /\ tasks[t].media = "photo"
        /\ tasks[t].delivered = {"news_channel", "photos_channel"}
        /\ tasks[t].stores = <<"inserted">>

\* C28 as stated: a failure of the storage inside store_message never
\* reaches the handler, which completes normally.
C28_StoreFailureNeverRaised ==
    \A t \in Tasks :
        (tasks[t].stores # <<>> /\ tasks[t].stores[1] \in {"logged", "raised"}) =>
            tasks[t].result = "completed" /\ tasks[t].error = "none"

\* C28, amended: a failure of the INSERT or of the commit is logged inside
\* store_message and the handler completes; a failure to open the
\* connection leaves store_message and the handler logs it.  Either way the
\* handler is over with every send made, the call writes no row, and a
\* handler skips a message as a duplicate only when a row for it exists: as
\* long as no store succeeds the message is handled again on each arrival.
C28_StoreFailureLeavesUnseen ==
    [][\A t \in Tasks :
          /\ (tasks'[t].stores # tasks[t].stores
                /\ tasks'[t].stores[1] \in {"logged", "raised"}) =>
                /\ messages' = messages
                /\ tasks'[t].pc = "done"
                /\ tasks'[t].delivered = AllChannels(tasks'[t])
                /\ tasks'[t].stores[1] = "logged" =>
                      tasks'[t].result = "completed" /\ tasks'[t].error = "none"
                /\ tasks'[t].stores[1] = "raised" =>
                      tasks'[t].result = "failed" /\ tasks'[t].error = "store_message"
          /\ (tasks'[t].result = "duplicate" /\ tasks[t].result # "duplicate") =>
                is_message_seen(messages, tasks[t].key[1], tasks[t].key[2])]_vars

\* The store of a message failed inside store_message; the message came
\* again afterwards, was sent again, and the store failed at the connection.
C28_Witness ==
    \E t, u \in Tasks :
        /\ tasks[t].pc = "done" /\ tasks[u].pc = "done"
        /\ tasks[t].key = tasks[u].key
        /\ tasks[t].stores = <<"logged">> /\ tasks[t].result = "completed"
        /\ tasks[u].stores = <<"raised">> /\ tasks[u].error = "store_message"
        /\ tasks[t].overlap = {} /\ tasks[u].overlap = {}
        /\ tasks[t].delivered = {"news_channel"}
        /\ tasks[u].delivered = {"news_channel"}
        /\ ~is_message_seen(messages, tasks[t].key[1], tasks[t].key[2])

\* C29: a failure of is_message_seen does not end the handling of the
\* message: no handler is over, with is_message_seen as the call that
\* failed, before the message reached its channels.
C29_LookupFailureDoesNotAbort ==
    \A t \in Tasks :
        (tasks[t].pc = "done" /\ tasks[t].error = "is_message_seen") =>
            /\ tasks[t].media # "webpage"
            /\ tasks[t].delivered = AllChannels(tasks[t])

(***************************************************************************)
(* The empty text (SpecClassify).                                          *)
(***************************************************************************)
\* C30: is_spam on the empty text answers not spam, with no reason,
\* whatever the learned patterns hold, whatever channel_id is passed and
\* whether or not the lookup raises.
C30_EmptyTextIsHam ==
    (verdict.called /\ verdict.text = <<>>) =>
        ~verdict.spam /\ verdict.reason = <<>>

\* is_spam was called on the empty text with a channel_id, on a table that
\* holds a pattern above its threshold.
C30_Witness ==
    /\ verdict.called /\ verdict.text = <<>>
    /\ verdict.channel_id # None
    /\ \E k \in DOMAIN learned_patterns : Actionable(learned_patterns, k)

(***************************************************************************)
(* Properties of is_message_seen (SpecSeen).                               *)
(***************************************************************************)
\* C31: a call of is_message_seen(channel_id, message_id) leaves the table
\* as it is and returns true exactly when the table holds a row with that
\* channel_id and that message_id; the rows of other pairs make no
\* difference to the result.
C31_PureLookup ==
    [][scall' # scall =>
          LET own == SelectSeq(messages,
                        LAMBDA r : KeyOf(r) = <<scall'.channel_id, scall'.message_id>>)
          IN  /\ messages' = messages
              /\ scall'.result = (RowsOf(messages, <<scall'.channel_id,
                                                     scall'.message_id>>) # {})
              /\ scall'.result = (own # <<>>)]_vars

\* The lookup answered false on a table that holds the same message_id of
\* the other channel and the other message_id of the same channel.
C31_Witness ==
    /\ scall.called /\ ~scall.result
    /\ RowsOf(messages, <<scall.channel_id, scall.message_id>>) = {}
    /\ \E i, j \in 1..Len(messages) :
          /\ messages[i].channel_id = scall.channel_id
          /\ messages[i].message_id # scall.message_id
          /\ messages[j].channel_id # scall.channel_id
          /\ messages[j].message_id = scall.message_id

(***************************************************************************)
(* Duplicates and failed deliveries in handle_message (SpecHandle).        *)
(***************************************************************************)
\* C32: when the duplicate check of a handler finds the row of its message,
\* the handler returns there: it has called neither translate_async nor
\* send_with_retry nor store_message, and it leaves the table as it is.
C32_SeenIsSkipped ==
    [][\A t \in Tasks :
          (/\ tasks[t].pc = "get_chat"
           /\ tasks'[t] # tasks[t]
           /\ tasks'[t].error = "none"
           /\ is_message_seen(messages, tasks[t].key[1], tasks[t].key[2])) =>
              /\ tasks'[t].pc = "done"
              /\ tasks'[t].result = "duplicate"
              /\ tasks'[t].content = ""
              /\ tasks'[t].delivered = {}
              /\ tasks'[t].stores = <<>>
              /\ messages' = messages]_vars

\* A message was sent and stored, came again, and was skipped.
C32_Witness ==
    \E t, u \in Tasks :
        /\ tasks[t].key = tasks[u].key
        /\ tasks[t].pc = "done" /\ tasks[t].stores = <<"inserted">>
        /\ tasks[t].delivered = {"news_channel"}
        /\ tasks[u].pc = "done" /\ tasks[u].result = "duplicate"
        /\ tasks[u].text # <<>>
        /\ tasks[u].delivered = {}

\* C33: store_message is called only when every send of the message
\* returned.  When send_with_retry raises, the handler ends there: the
\* channels after the failing one get nothing and store_message is not
\* called.
C33_StoredOnlyAfterAllSends ==
    \A t \in Tasks :
        /\ tasks[t].stores # <<>> =>
              /\ tasks[t].delivered = AllChannels(tasks[t])
              /\ tasks[t].error # "send_with_retry"
        /\ tasks[t].error = "send_with_retry" =>
              /\ tasks[t].pc = "done"
              /\ tasks[t].stores = <<>>
              /\ tasks[t].dests # <<>>
              /\ tasks[t].delivered \cap Range(tasks[t].dests) = {}
              /\ tasks[t].delivered \cup Range(tasks[t].dests) = AllChannels(tasks[t])

\* A photo reached the news channel, the send to the photos channel raised,
\* and the message was not stored.
C33_Witness ==
    \E t \in Tasks :
        /\ tasks[t].pc = "done" /\ tasks[t].error = "send_with_retry"
        /\ tasks[t].media = "photo"
        /\ tasks[t].delivered = {"news_channel"}
        /\ tasks[t].dests = <<"photos_channel">>
        /\ tasks[t].stores = <<>>
        /\ ~is_message_seen(messages, tasks[t].key[1], tasks[t].key[2])

(***************************************************************************)
(* Termination (SpecHandleLive).                                           *)
(***************************************************************************)
\* C34: a call of send_with_retry makes at most 3 attempts and sleeps at
\* most twice, after its first and its second attempt only; and every
\* handler that has started reaches its end, when each of its awaits
\* returns or raises.
C34_Terminates ==
    /\ [](\A t \in Tasks :
            /\ tasks[t].attempt <= max_retries - 1
            /\ tasks[t].pc = "sleep" => tasks[t].attempt < max_retries - 1)
    /\ \A t \in Tasks : (tasks[t].pc # "idle") ~> (tasks[t].pc = "done")

\* A handler ended with the exception of the third attempt of a send.
C34_Witness ==
    \E t \in Tasks :
        /\ tasks[t].pc = "done"
        /\ tasks[t].error = "send_with_retry"
        /\ tasks[t].attempt = max_retries - 1

(***************************************************************************)
(* Order of the rules (SpecClassify).                                      *)
(***************************************************************************)
\* The learned-pattern lookup of the last call of is_spam let the text
\* through.
LookupDecided ==
    /\ verdict.channel_id # None
    /\ ~verdict.lookup_raises
    /\ check_learned_patterns(verdict.text, learned_patterns).match

\* C35: a text that the financial rule and the off-topic rule both match,
\* and that no learned pattern lets through, is spam with the financial
\* reason, never with the off-topic reason.
C35_FinancialBeforeOffTopic ==
    /\ verdict.called
    /\ ~LookupDecided
    /\ is_financial_spam(verdict.text).spam
    /\ is_off_topic(verdict.text).spam
    => /\ verdict.spam
       /\ verdict.reason =
             <<"Financial spam">> \o is_financial_spam(verdict.text).reason

\* is_spam was called on a text that both rules match.
C35_Witness ==
    /\ verdict.called
    /\ ~LookupDecided
    /\ is_financial_spam(verdict.text).spam
    /\ is_off_topic(verdict.text).spam
    /\ verdict.reason[1] = "Financial spam"

(***************************************************************************)
(* Re-arrival after a delivery that failed part-way (SpecHandle).          *)
(***************************************************************************)
\* C36: no destination receives an item twice, also when the item arrives
\* again after a handler that gave up in the middle of its deliveries: a
\* handler that did not overlap with that one sends nothing to a channel
\* that one had reached.
C36_NoDestinationTwice ==
    \A t, u \in Tasks :
        /\ t # u
        /\ tasks[t].error = "send_with_retry"
        /\ tasks[u].pc # "idle"
        /\ tasks[u].key = tasks[t].key
        /\ ~Concurrent(t, u)
        => tasks[t].delivered \cap tasks[u].delivered = {}

(***************************************************************************)
(* Seen means sent (SpecHandle).                                           *)
(***************************************************************************)
\* C37: every item that has a row in the messages table was delivered to
\* at least one destination by some handler, whatever its media kind.
C37_SeenWasSent ==
    \A k \in Keys :
        RowsOf(messages, k) # {}
        => \E t \in Tasks : /\ tasks[t].pc # "idle"
                            /\ tasks[t].key = k
                            /\ tasks[t].delivered # {}

(***************************************************************************)
(* Distinct confirmations (SpecClassify).                                  *)
(***************************************************************************)
\* The spam rows whose recoveries taught the pattern.
ConfirmedIn(pattern_type, pattern_value) ==
    {spam_recovered[i].spam_id : i \in
        {j \in 1..Len(spam_recovered) :
            IF pattern_type = "trigram"
            THEN pattern_value
                    \in Range(spam_recovered[j].learned_patterns_json.trigram)
            ELSE pattern_value
                    \in spam_recovered[j].learned_patterns_json.named_entity}}

\* C38: a whitelist pattern is actionable only when recoveries of at least
\* threshold-many distinct spam rows taught it (2 for an entity, 3 for a
\* trigram); recovering one spam row again and again makes none of its
\* patterns actionable.
C38_DistinctRecordsNeeded ==
    \A key \in DOMAIN learned_patterns :
        Actionable(learned_patterns, key)
        => Cardinality(ConfirmedIn(key[1], key[2])) >=
              (IF key[1] = "named_entity" THEN entity_threshold
               ELSE trigram_threshold)

(***************************************************************************)
(* Concurrent add_learned_pattern (SpecUpsert).                            *)
(***************************************************************************)
\* The calls of add_learned_pattern for the key that have returned.
Returned(key) ==
    {c \in Callers : /\ callers[c].pc = "done"
                     /\ callers[c].result = "ok"
                     /\ callers[c].key = key}

\* C39: whatever the interleaving of the calls, the confidence of a key is
\* the number of calls for it that have returned, and a key no call has
\* returned for has no row: no increment is lost, and n calls from an
\* absent key leave one row with confidence n.
C39_NoLostIncrement ==
    \A key \in UpsertArgs :
        /\ Confidence(learned_patterns, key) = Cardinality(Returned(key))
        /\ key \in DOMAIN learned_patterns <=> Returned(key) # {}

\* All the calls were for one key, every one of them began while another
\* was under way or had others begin during it, and all have returned.
C39_Witness ==
    \E key \in UpsertArgs :
        /\ Returned(key) = Callers
        /\ \E c \in Callers : Cardinality(callers[c].raced) = NumCallers - 1
        /\ learned_patterns = (key :> NumCallers)

(***************************************************************************)
(* Recovery and its record (SpecRecover).                                  *)
(***************************************************************************)
\* C40: with no recovery under way, the confidence of every whitelist
\* pattern is the number of spam_recovered rows whose snapshot holds it,
\* and every pattern of a snapshot has a row: a recovery that failed left
\* no increment without a record and no record without its increments.
C40_AllOrNothing ==
    ~Recovering
    => /\ \A key \in DOMAIN learned_patterns :
             key[3] = "whitelist"
             => learned_patterns[key] = TimesLearned(key[1], key[2])
       /\ \A i \in 1..Len(spam_recovered) :
             \A j \in 1..Len(PatternPairs(spam_recovered[i].learned_patterns_json)) :
                LET pair == PatternPairs(spam_recovered[i].learned_patterns_json)[j]
                IN  <<pair[1], pair[2], "whitelist">> \in DOMAIN learned_patterns

====
